---- MODULE Spec2Model ----
(***************************************************************************)
(* Model of the hierarchical navigation and caching engine of the sidebar  *)
(* (frontend/src/components/Sidebar.tsx) and of the persistent tree cache  *)
(* (frontend/src/utils/groupTree.ts).                                      *)
(*                                                                         *)
(* Spec        the paged level loader, the branch path resolver and the    *)
(*             revalidation loop of one mounted Sidebar                    *)
(* FairSpec    Spec with the fairness of timers, renders and responses     *)
(* SearchSpec  the debounced search effect                                 *)
(* CacheSpec   loadGroupTreeCache / saveGroupTreeCache over a session store*)
(***************************************************************************)
EXTENDS Integers, Sequences, FiniteSets, Bags, TLC

VARIABLES
    \* ---- Sidebar: levels, path, revalidation
    mounted,            \* the mount effects have run
    groupLists,         \* React state: level key -> GroupListState
    groupListsRef,      \* groupListsRef.current, as of the last commit
    inflight,           \* bag of outstanding level requests (loadGroupList awaits)
    rootMetaRef,        \* rootMetaRef.current: [hash, lastModifiedHttp], 0 = unset
    revalidateTickRef,  \* revalidateTickRef.current
    cycles,             \* revalidation cycles in progress, by slot
    selectedGroupId,    \* prop; 0 = null
    groupPath,          \* React state: sequence of group ids
    groupPathLoading,
    groupPathError,
    pathReqs,           \* set of outstanding fetchPath requests [gid, cancelled]
    serverHash,         \* the remote hierarchy's current hash
    lastStep,           \* "RevalUnchanged" after a check answered unchanged
    returnedCursor,     \* level key -> the next_cursor the server last returned
    sentBeforeDiscard,  \* the outstanding requests sent before the last discard
    \* ---- Sidebar: search effect
    groupSearch,
    searchResults,
    searchLoading,
    searchProjectResults,
    searchProjectLoading,
    searchProjectError,
    searchTimer,        \* the pending debounce timer's closure, or <<>>
    searchReqs,         \* set of outstanding search requests
    quietFor,           \* milliseconds since the search effect last ran
    \* ---- groupTree.ts
    storage,            \* sessionStorage[STORAGE_KEY]: <<>> absent, or <<payload>>
    storageThrows,      \* sessionStorage access throws
    now,                \* Date.now()
    savedRecord,        \* the record given to the last saveGroupTreeCache, or <<>>
    loaded,             \* the result of the last loadGroupTreeCache, or <<>>
    \* ---- VirtualList
    listMounted,        \* the list's effects have run
    attached,           \* scrollRef.current and listRef.current are elements
    itemCount,          \* items.length
    estimatedRowHeight, \* prop rowHeight
    renderedRowHeight,  \* height of a rendered row, margins included
    rowHeight,          \* React state
    overscan,           \* prop
    range,              \* React state [start, end]
    scrollTop,          \* scrollEl.scrollTop
    relativeTop,        \* computeOffsetTop(listEl, scrollEl)
    clientHeight,       \* scrollEl.clientHeight
    trailing,           \* height of what follows the list in the scroll container
    \* ---- Sidebar: project lists
    projectsMounted,    \* a page with the sidebar is loaded
    activeGroup,        \* activeGroupId of that page; 0 = undefined
    projectText,        \* groupSearch, as the project activation effect reads it
    projectsMap,        \* React state: group id -> ProjectsSnapshot
    projectPrefsRef,    \* projectPrefsRef.current: the keys set to true
    storedPrefs,        \* sessionStorage[PROJECT_PREF_KEY]: the keys set to true
    projectReqs,        \* outstanding fetchProjects / fetchAllProjects calls
    projectClock,       \* Date.now(), in half TTLs
    justCollapsed       \* the last step of the project section was a collapse

sidebarVars ==
    <<mounted, groupLists, groupListsRef, inflight,
      rootMetaRef, revalidateTickRef, cycles, selectedGroupId, groupPath,
      groupPathLoading, groupPathError, pathReqs, serverHash, lastStep,
      returnedCursor, sentBeforeDiscard>>

searchVars ==
    <<groupSearch, searchResults, searchLoading, searchProjectResults,
      searchProjectLoading, searchProjectError, searchTimer, searchReqs,
      quietFor>>

cacheVars ==
    <<storage, storageThrows, now, savedRecord, loaded>>

listVars ==
    <<listMounted, attached, itemCount, estimatedRowHeight, renderedRowHeight,
      rowHeight, overscan, range, scrollTop, relativeTop, clientHeight,
      trailing>>

projectVars ==
    <<projectsMounted, activeGroup, projectText, projectsMap, projectPrefsRef,
      storedPrefs, projectReqs, projectClock, justCollapsed>>

vars ==
    <<sidebarVars, searchVars, cacheVars, listVars, projectVars>>

----------------------------------------------------------------------------
\* Bounds of the model

\* groups 1..MaxGroup form one chain: group g is the child of group g-1
MaxGroup ==
    1
\* number of top-level groups the server holds
RootTotal ==
    8
\* number of children the server holds for group 1: pages of 4, 12 and 1
ChildTotal ==
    17
\* the hierarchy's hash takes the values 1..MaxHash
MaxHash ==
    2
\* slots for revalidation cycles
MaxCycles ==
    2

----------------------------------------------------------------------------
\* Program constants

ROOT_INITIAL_LIMIT ==
    6
CHILD_INITIAL_LIMIT ==
    4
ROOT_PAGE_LIMIT ==
    24
CHILD_PAGE_LIMIT ==
    12

\* keyForParent(null) = "root"
RootKey ==
    0
\* a null cursor
NoCursor ==
    0

Groups ==
    1..MaxGroup

Keys ==
    {RootKey} \cup Groups

Min(a, b) ==
    IF a <= b THEN a ELSE b

EmptyFn ==
    [k \in {} |-> 0]

----------------------------------------------------------------------------
\* The remote service (external collaborator, section 6 of the specification)

\* number of items of a level
ServerTotal(key) ==
    IF key = RootKey THEN RootTotal
    ELSE IF key = 1 THEN ChildTotal
    ELSE 3

\* the fixed, ordered list of a level; ids are unique across levels
ServerList(key) ==
    [i \in 1..ServerTotal(key) |-> 100 * (key + 1) + i]

\* one page: the cursor is the offset of the next item
ServerPage(key, cursor, limit) ==
    LET n == ServerTotal(key)
        last == Min(cursor + limit, n)
    IN  [items |-> SubSeq(ServerList(key), cursor + 1, last),
         next_cursor |-> IF last < n THEN last ELSE NoCursor,
         total |-> n]

\* the ancestor chain of a group, root first
ServerPath(gid) ==
    [i \in 1..gid |-> i]

----------------------------------------------------------------------------
\* PagedLevelLoader: loadGroupList (Sidebar.tsx 182-258)

DefaultLimit(key) ==
    IF key = RootKey THEN ROOT_INITIAL_LIMIT ELSE CHILD_INITIAL_LIMIT

PageLimit(key) ==
    IF key = RootKey THEN ROOT_PAGE_LIMIT ELSE CHILD_PAGE_LIMIT

\* lists[key] as an optional value: <<>> when the key is absent
Prev(lists, key) ==
    IF key \in DOMAIN lists THEN <<lists[key]>> ELSE <<>>

\* line 186: if (prev?.loading && !options.reset) return
InFlightGuard(prev, reset) ==
    prev # <<>> /\ prev[1].loading /\ ~reset

\* line 190; opt = 0 stands for an absent options.initialLimit
InitialLimitOf(key, prev, opt) ==
    IF opt # 0 THEN opt
    ELSE IF prev # <<>> THEN prev[1].initialLimit
    ELSE DefaultLimit(key)

\* line 191
RequestCursor(prev, reset) ==
    IF reset THEN NoCursor
    ELSE IF prev # <<>> THEN prev[1].cursor
    ELSE NoCursor

\* lines 192-196
RequestLimit(key, cursor, initialLimit) ==
    IF cursor # NoCursor THEN PageLimit(key) ELSE initialLimit

\* a loading state that empties the list while the request is outstanding
LoadingStateClearingItems(prev, initialLimit) ==
    [items |-> <<>>,
     cursor |-> IF prev # <<>> THEN prev[1].cursor ELSE NoCursor,
     total |-> IF prev # <<>> THEN prev[1].total ELSE 0,
     loading |-> TRUE,
     error |-> FALSE,
     initialLimit |-> initialLimit,
     displayCount |-> IF prev # <<>> THEN prev[1].displayCount
                      ELSE Min(initialLimit, 0)]

\* lines 198-209: the state written before the request is sent
LoadingState(prev, initialLimit) ==
    [items |-> IF prev # <<>> THEN prev[1].items ELSE <<>>,
     cursor |-> IF prev # <<>> THEN prev[1].cursor ELSE NoCursor,
     total |-> IF prev # <<>> THEN prev[1].total ELSE 0,
     loading |-> TRUE,
     error |-> FALSE,
     initialLimit |-> initialLimit,
     displayCount |-> IF prev # <<>> THEN prev[1].displayCount
                      ELSE Min(initialLimit, 0)]

\* what one call of loadGroupList keeps in its closure while it awaits
LevelRequest(key, prev, reset, opt, cid) ==
    LET initialLimit == InitialLimitOf(key, prev, opt)
        cursor == RequestCursor(prev, reset)
    IN  [key |-> key, prev |-> prev, reset |-> reset, cursor |-> cursor,
         initialLimit |-> initialLimit,
         limit |-> RequestLimit(key, cursor, initialLimit),
         cid |-> cid]

\* a loader that forgets the items it held when a further page arrives
MergedItemsWithoutPrevious(req, response) ==
    response.items

\* lines 223-224
MergedItems(req, response) ==
    LET previousItems == IF req.cursor # NoCursor /\ req.prev # <<>>
                         THEN req.prev[1].items ELSE <<>>
    IN  IF req.cursor # NoCursor /\ Len(previousItems) > 0
        THEN previousItems \o response.items
        ELSE response.items

\* lines 223-240: the state written when the response arrives
LoadedState(req, response) ==
    LET items == MergedItems(req, response)
    IN  [items |-> items,
         cursor |-> response.next_cursor,
         total |-> response.total,
         loading |-> FALSE,
         error |-> FALSE,
         initialLimit |-> req.initialLimit,
         displayCount |->
            IF req.cursor # NoCursor /\ req.prev # <<>>
            THEN Min(req.prev[1].displayCount + Len(response.items), Len(items))
            ELSE Min(Len(items), req.initialLimit)]

\* lines 241-255: the state written when the request fails
FailedState(req) ==
    LET prev == req.prev
    IN  [items |-> IF prev # <<>> THEN prev[1].items ELSE <<>>,
         cursor |-> IF prev # <<>> THEN prev[1].cursor ELSE NoCursor,
         total |-> IF prev # <<>> THEN prev[1].total ELSE 0,
         loading |-> FALSE,
         error |-> TRUE,
         initialLimit |-> req.initialLimit,
         displayCount |-> IF prev # <<>> THEN prev[1].displayCount
                          ELSE Min(req.initialLimit, 0)]

\* a call of loadGroupList(key, {reset, initialLimit: opt}); cid names the
\* revalidation cycle that awaits it, 0 when the caller does not await
Call(key, reset, opt, cid) ==
    [key |-> key, reset |-> reset, opt |-> opt, cid |-> cid]

\* groupLists after the calls ran in order, each reading the ref (lines 185-209)
RECURSIVE ListsAfter(_, _, _)
ListsAfter(lists, ref, calls) ==
    IF calls = <<>> THEN lists
    ELSE LET c == Head(calls)
             prev == Prev(ref, c.key)
         IN  IF InFlightGuard(prev, c.reset)
             THEN ListsAfter(lists, ref, Tail(calls))
             ELSE ListsAfter(
                    (c.key :> LoadingState(prev, InitialLimitOf(c.key, prev, c.opt)))
                        @@ lists,
                    ref, Tail(calls))

\* the requests the calls send (lines 211-214)
RECURSIVE RequestsOf(_, _)
RequestsOf(ref, calls) ==
    IF calls = <<>> THEN EmptyBag
    ELSE LET c == Head(calls)
             prev == Prev(ref, c.key)
         IN  IF InFlightGuard(prev, c.reset)
             THEN RequestsOf(ref, Tail(calls))
             ELSE SetToBag({LevelRequest(c.key, prev, c.reset, c.opt, c.cid)})
                    (+) RequestsOf(ref, Tail(calls))

\* number of outstanding requests for one level key
Outstanding(key) ==
    BagCardinality([r \in {q \in DOMAIN inflight : q.key = key} |-> inflight[r]])

\* lines 297-307: the loads of the ancestor effect for a path
AncestorCalls(ref, path) ==
    LET ancestors == <<RootKey>> \o path
        missing == SelectSeq(ancestors, LAMBDA k : k \notin DOMAIN ref)
    IN  [i \in 1..Len(missing) |->
            Call(missing[i], TRUE, DefaultLimit(missing[i]), 0)]

\* lines 598-602 (0 = undefined) and 625
ActiveGroupId ==
    IF selectedGroupId > 0 THEN selectedGroupId
    ELSE IF groupPath # <<>> THEN groupPath[Len(groupPath)]
    ELSE 0

\* line 818: currentListState ?? rootListState
NonSearchListState ==
    IF ActiveGroupId \in DOMAIN groupLists THEN <<groupLists[ActiveGroupId]>>
    ELSE Prev(groupLists, RootKey)

\* line 827 (outside search mode)
HasMoreGroups ==
    /\ NonSearchListState # <<>>
    /\ \/ NonSearchListState[1].cursor # NoCursor
       \/ NonSearchListState[1].displayCount < Len(NonSearchListState[1].items)

\* line 828
CanCollapseGroups ==
    /\ NonSearchListState # <<>>
    /\ NonSearchListState[1].displayCount > NonSearchListState[1].initialLimit

----------------------------------------------------------------------------
\* Commits.  A handler runs to completion against groupListsRef as the last
\* commit left it; React then renders, the ref effect (141-143) copies the
\* state into the ref and, when groupPath changed, the ancestor effect
\* (297-307) runs against the fresh ref.

\* the loads of the commit that follows a handler
CommitCalls(lists, path, pathChanged) ==
    IF pathChanged THEN AncestorCalls(lists, path) ELSE <<>>

\* groupLists once the commit's effects ran
Committed(lists, path, pathChanged) ==
    ListsAfter(lists, lists, CommitCalls(lists, path, pathChanged))

\* the requests the commit's effects sent
CommitRequests(lists, path, pathChanged) ==
    RequestsOf(lists, CommitCalls(lists, path, pathChanged))

----------------------------------------------------------------------------
\* Revalidation cycles (Sidebar.tsx 309-345): one async callback of the interval

NoCycle ==
    [stage |-> "idle", path |-> <<>>, sel |-> 0, idx |-> 0, sent |-> 0]

CyclesInProgress ==
    {c \in 1..MaxCycles : cycles[c].stage # "idle"}

\* an interval callback without the overlap guard
TickGuardOff ==
    FALSE

\* line 312: if (revalidateTickRef.current) return
TickGuard ==
    revalidateTickRef

\* line 314: if (!meta.hash && !meta.lastModifiedHttp) return
NoMarker ==
    rootMetaRef.hash = 0 /\ rootMetaRef.lastModifiedHttp = 0

\* a callback that ignores response.changed and always reloads
ServerChangedAlways(sent) ==
    TRUE

\* the conditional request's answer: the server compares the hash it is sent
ServerChanged(sent) ==
    sent # serverHash

\* lines 216-221 and 319-322: the markers the server returns are stored
MetaFrom(hash) ==
    [hash |-> hash, lastModifiedHttp |-> hash]

\* lines 340-342: finally { revalidateTickRef.current = false }
FinishCycle(cid) ==
    /\ cycles' = [cycles EXCEPT ![cid] = NoCycle]
    /\ revalidateTickRef' = FALSE

----------------------------------------------------------------------------
\* Sidebar actions

SidebarInit ==
    /\ mounted = FALSE
    /\ groupLists = EmptyFn
    /\ groupListsRef = EmptyFn
    /\ inflight = EmptyBag
    /\ rootMetaRef = MetaFrom(0)
    /\ revalidateTickRef = FALSE
    /\ cycles = [c \in 1..MaxCycles |-> NoCycle]
    /\ selectedGroupId \in {0} \cup Groups
    /\ groupPath = <<>>
    /\ groupPathLoading = FALSE
    /\ groupPathError = FALSE
    /\ pathReqs = {}
    /\ serverHash = 1
    /\ lastStep = "other"
    /\ returnedCursor = EmptyFn
    /\ sentBeforeDiscard = EmptyBag

\* lines 264-295: the path effect's body for the selection sel
PathEffect(sel, reqs) ==
    IF sel > 0
    THEN /\ groupPathLoading' = TRUE
         /\ groupPathError' = FALSE
         /\ groupPath' = groupPath
         /\ pathReqs' = reqs \cup {[gid |-> sel, cancelled |-> FALSE]}
    ELSE /\ groupPath' = <<>>
         /\ groupPathError' = FALSE
         /\ groupPathLoading' = FALSE
         /\ pathReqs' = reqs

\* the effects of the first commit, in order: mount load (260-262), path
\* effect (264-295), ancestor load (297-307) reading the still empty ref
Mount ==
    /\ ~mounted
    /\ mounted' = TRUE
    /\ LET calls == <<Call(RootKey, TRUE, ROOT_INITIAL_LIMIT, 0)>>
                        \o AncestorCalls(groupListsRef, groupPath)
           lists == ListsAfter(groupLists, groupListsRef, calls)
       IN  /\ groupLists' = Committed(lists, <<>>, selectedGroupId = 0)
           /\ inflight' = inflight (+) RequestsOf(groupListsRef, calls)
                            (+) CommitRequests(lists, <<>>, selectedGroupId = 0)
    /\ groupListsRef' = groupLists'
    /\ PathEffect(selectedGroupId, pathReqs)
    /\ lastStep' = "other"
    /\ UNCHANGED <<returnedCursor, sentBeforeDiscard>>
    /\ UNCHANGED <<rootMetaRef, revalidateTickRef, cycles, selectedGroupId,
                   serverHash,
                   searchVars, cacheVars, listVars, projectVars>>

\* the prop selectedGroupId changes.  Its owners are the pages: index.tsx
\* passes null, group.tsx the id of its URL, and project.tsx a state it only
\* ever sets with setParentGroupId(prev => prev ?? gid), so the prop changes
\* from null to a group and never again.  The path effect's cleanup (292-294)
\* runs, then its body.
Select(g) ==
    /\ mounted
    /\ selectedGroupId = 0
    /\ selectedGroupId' = g
    /\ PathEffect(g, {[r EXCEPT !.cancelled = TRUE] : r \in pathReqs})
    /\ groupLists' = groupLists
    /\ inflight' = inflight
    /\ groupListsRef' = groupLists'
    /\ lastStep' = "other"
    /\ UNCHANGED <<returnedCursor, sentBeforeDiscard>>
    /\ UNCHANGED <<mounted, rootMetaRef, revalidateTickRef, cycles, serverHash,
                   searchVars, cacheVars, listVars, projectVars>>

\* the prop selectedGroupId (line 116) of a mounted sidebar changes away from a
\* selected group, to another group or to none.  The component accepts any
\* value at any render; the pages of this repository never make this change
\* (see Select), so it is a step of SelectionSpec only.  The path effect's
\* cleanup (292-294) runs, then its body (284-290).
SelectionChange(g) ==
    /\ mounted
    /\ selectedGroupId # 0
    /\ g # selectedGroupId
    /\ selectedGroupId' = g
    /\ PathEffect(g, {[r EXCEPT !.cancelled = TRUE] : r \in pathReqs})
    /\ groupLists' = groupLists
    /\ inflight' = inflight
    /\ groupListsRef' = groupLists'
    /\ lastStep' = "other"
    /\ UNCHANGED <<returnedCursor, sentBeforeDiscard>>
    /\ UNCHANGED <<mounted, rootMetaRef, revalidateTickRef, cycles, serverHash,
                   searchVars, cacheVars, listVars, projectVars>>

\* lines 270-281: the response of api.groupPath for the path effect
PathResponse(req, ok) ==
    /\ req \in pathReqs
    /\ pathReqs' = pathReqs \ {req}
    /\ IF req.cancelled
       THEN UNCHANGED <<groupPath, groupPathLoading, groupPathError, groupLists,
                        groupListsRef, inflight>>
       ELSE LET path == IF ok THEN ServerPath(req.gid) ELSE <<>>
                sent == CommitRequests(groupLists, path, TRUE)
            IN  /\ groupPath' = path
                /\ groupPathLoading' = FALSE
                /\ groupPathError' = ~ok
                /\ groupLists' = Committed(groupLists, path, TRUE)
                /\ inflight' = inflight (+) sent
                /\ groupListsRef' = groupLists'
    /\ lastStep' = "other"
    /\ UNCHANGED <<returnedCursor, sentBeforeDiscard>>
    /\ UNCHANGED <<mounted, rootMetaRef, revalidateTickRef, cycles,
                   selectedGroupId, serverHash,
                   searchVars, cacheVars, listVars, projectVars>>

\* the calls of handleShowMoreGroups (lines 634-642) for the level it finds
ShowMoreCalls(key, state) ==
    IF state = <<>>
    THEN <<Call(key, TRUE, DefaultLimit(key), 0)>>
    ELSE IF state[1].cursor # NoCursor
    THEN <<Call(key, FALSE, state[1].initialLimit, 0)>>
    ELSE <<>>

\* lines 630-654: handleShowMoreGroups(activeGroupId ?? null)
ShowMore ==
    /\ mounted
    /\ HasMoreGroups
    /\ LET key == ActiveGroupId
           state == Prev(groupListsRef, key)
           calls == ShowMoreCalls(key, state)
           sent == RequestsOf(groupListsRef, calls)
       IN  /\ inflight' = inflight (+) sent
           /\ groupLists' =
                IF calls # <<>>
                THEN ListsAfter(groupLists, groupListsRef, calls)
                ELSE IF state[1].displayCount < Len(state[1].items)
                THEN (key :> [state[1] EXCEPT !.displayCount = Len(state[1].items)])
                        @@ groupLists
                ELSE groupLists
    /\ groupListsRef' = groupLists'
    /\ lastStep' = "other"
    /\ UNCHANGED <<returnedCursor, sentBeforeDiscard>>
    /\ UNCHANGED <<mounted, rootMetaRef, revalidateTickRef, cycles, selectedGroupId,
                   groupPath, groupPathLoading, groupPathError, pathReqs, serverHash,
                   searchVars, cacheVars, listVars, projectVars>>

\* lines 656-670: handleCollapseGroups(activeGroupId ?? null)
Collapse ==
    /\ mounted
    /\ CanCollapseGroups
    /\ LET key == ActiveGroupId
           state == Prev(groupListsRef, key)
       IN  groupLists' =
             IF state = <<>> THEN groupLists
             ELSE (key :> [state[1] EXCEPT
                      !.displayCount = Min(Len(state[1].items), state[1].initialLimit)])
                    @@ groupLists
    /\ groupListsRef' = groupLists'
    /\ lastStep' = "other"
    /\ UNCHANGED <<returnedCursor, sentBeforeDiscard>>
    /\ UNCHANGED <<mounted, inflight, rootMetaRef, revalidateTickRef, cycles,
                   selectedGroupId, groupPath, groupPathLoading, groupPathError,
                   pathReqs, serverHash,
                   searchVars, cacheVars, listVars, projectVars>>

\* the remote hierarchy changes: its hash becomes a new one
ServerChange ==
    /\ mounted
    /\ serverHash < MaxHash
    /\ serverHash' = serverHash + 1
    /\ lastStep' = "other"
    /\ UNCHANGED <<returnedCursor, sentBeforeDiscard>>
    /\ UNCHANGED <<mounted, groupLists, groupListsRef, inflight, rootMetaRef,
                   revalidateTickRef, cycles, selectedGroupId, groupPath,
                   groupPathLoading, groupPathError, pathReqs,
                   searchVars, cacheVars, listVars, projectVars>>

\* lines 311-317: the interval callback up to its conditional request; its
\* closure holds the groupPath and selectedGroupId of the last commit
RevalTick ==
    /\ mounted
    /\ \E cid \in 1..MaxCycles :
         /\ cycles[cid].stage = "idle"
         /\ \A c \in 1..(cid - 1) : cycles[c].stage # "idle"
         /\ IF TickGuard \/ NoMarker
            THEN UNCHANGED <<revalidateTickRef, cycles>>
            ELSE /\ revalidateTickRef' = TRUE
                 /\ cycles' = [cycles EXCEPT ![cid] =
                        [stage |-> "check", path |-> groupPath,
                         sel |-> selectedGroupId, idx |-> 0,
                         sent |-> rootMetaRef.hash]]
    /\ lastStep' = "other"
    /\ UNCHANGED <<returnedCursor, sentBeforeDiscard>>
    /\ UNCHANGED <<mounted, groupLists, groupListsRef, inflight, rootMetaRef,
                   selectedGroupId, groupPath, groupPathLoading, groupPathError,
                   pathReqs, serverHash,
                   searchVars, cacheVars, listVars, projectVars>>

\* lines 323-325: the cached levels are dropped and the root reloaded
InvalidatedLists(cid) ==
    ListsAfter(EmptyFn, EmptyFn, <<Call(RootKey, TRUE, ROOT_INITIAL_LIMIT, cid)>>)

\* lines 317-325 and 338-342: the conditional request resolves or fails
RevalCheckResponse(cid, ok) ==
    /\ cycles[cid].stage = "check"
    /\ IF ok /\ ServerChanged(cycles[cid].sent)
       THEN /\ rootMetaRef' = MetaFrom(serverHash)
            /\ groupLists' = InvalidatedLists(cid)
            /\ groupListsRef' = groupLists'
            /\ inflight' = inflight (+) RequestsOf(EmptyFn,
                              <<Call(RootKey, TRUE, ROOT_INITIAL_LIMIT, cid)>>)
            /\ cycles' = [cycles EXCEPT ![cid].stage = "levels"]
            /\ lastStep' = "other"
            /\ UNCHANGED revalidateTickRef
       ELSE /\ FinishCycle(cid)
            /\ lastStep' = IF ok THEN "RevalUnchanged" ELSE "other"
            /\ UNCHANGED <<groupLists, groupListsRef, inflight, rootMetaRef>>
    /\ UNCHANGED returnedCursor
    /\ sentBeforeDiscard' = IF ok /\ ServerChanged(cycles[cid].sent)
                            THEN inflight ELSE sentBeforeDiscard
    /\ UNCHANGED <<mounted, selectedGroupId, groupPath, groupPathLoading,
                   groupPathError, pathReqs, serverHash,
                   searchVars, cacheVars, listVars, projectVars>>

\* a cycle that reloads the root only
CycleCallsRootOnly(c, cid) ==
    <<>>

\* lines 326-328: the cycle's next call of loadGroupList, if any
CycleCalls(c, cid) ==
    IF c.stage = "levels" /\ c.idx < Len(c.path)
    THEN <<Call(c.path[c.idx + 1], TRUE, CHILD_INITIAL_LIMIT, cid)>>
    ELSE <<>>

\* lines 325-342: the cycle after the level load it awaited returned
CycleAfterLoad(c) ==
    IF c.idx < Len(c.path) THEN [c EXCEPT !.idx = c.idx + 1]
    ELSE IF c.sel # 0 THEN [c EXCEPT !.stage = "path"]
    ELSE NoCycle

\* lines 211-255: a level request resolves or fails; when a revalidation cycle
\* awaits it (325-328) the cycle goes on in the same turn
LevelResponse(req, ok) ==
    /\ BagIn(req, inflight)
    /\ LET rest == inflight (-) SetToBag({req})
           written == IF ok
                      THEN LoadedState(req, ServerPage(req.key, req.cursor, req.limit))
                      ELSE FailedState(req)
           lists == (req.key :> written) @@ groupLists
           calls == IF req.cid = 0 THEN <<>> ELSE CycleCalls(cycles[req.cid], req.cid)
       IN  /\ rootMetaRef' = IF ok /\ req.key = RootKey THEN MetaFrom(serverHash)
                             ELSE rootMetaRef
           /\ groupLists' = ListsAfter(lists, groupListsRef, calls)
           /\ inflight' = rest (+) RequestsOf(groupListsRef, calls)
           /\ IF req.cid = 0
              THEN UNCHANGED <<cycles, revalidateTickRef>>
              ELSE /\ cycles' = [cycles EXCEPT ![req.cid] = CycleAfterLoad(@)]
                   /\ revalidateTickRef' =
                        IF CycleAfterLoad(cycles[req.cid]) = NoCycle THEN FALSE
                        ELSE revalidateTickRef
    /\ groupListsRef' = groupLists'
    /\ lastStep' = "other"
    /\ returnedCursor' =
         IF ok
         THEN (req.key :> ServerPage(req.key, req.cursor, req.limit).next_cursor)
                @@ returnedCursor
         ELSE returnedCursor
    /\ sentBeforeDiscard' = IF BagIn(req, sentBeforeDiscard)
                            THEN sentBeforeDiscard (-) SetToBag({req})
                            ELSE sentBeforeDiscard
    /\ UNCHANGED <<mounted, selectedGroupId, groupPath, groupPathLoading,
                   groupPathError, pathReqs, serverHash,
                   searchVars, cacheVars, listVars, projectVars>>

\* lines 329-336 and 340-342: the cycle's path request resolves or fails
RevalPathResponse(cid, ok) ==
    /\ cycles[cid].stage = "path"
    /\ LET path == IF ok THEN ServerPath(cycles[cid].sel) ELSE groupPath
           sent == CommitRequests(groupLists, path, ok)
       IN  /\ groupPath' = path
           /\ groupLists' = Committed(groupLists, path, ok)
           /\ inflight' = inflight (+) sent
    /\ groupListsRef' = groupLists'
    /\ FinishCycle(cid)
    /\ lastStep' = "other"
    /\ UNCHANGED <<returnedCursor, sentBeforeDiscard>>
    /\ UNCHANGED <<mounted, rootMetaRef, selectedGroupId, groupPathLoading,
                   groupPathError, pathReqs, serverHash,
                   searchVars, cacheVars, listVars, projectVars>>


----------------------------------------------------------------------------
\* The search effect (Sidebar.tsx 347-416)

\* cap on outstanding search requests
MaxSearchReqs ==
    4

\* the texts the user types
Texts ==
    {"", " ", "a", "b"}

\* String.prototype.trim on Texts
Trim(text) ==
    IF text = " " THEN "" ELSE text

\* what a search for a query within a scope returns, as the list shown
SearchAnswer(query, scope) ==
    <<[query |-> query, scope |-> scope]>>

\* line 363: selectedGroupId ?? (last node of groupPath ?? null)
ScopeGroupId ==
    IF selectedGroupId # 0 THEN selectedGroupId
    ELSE IF groupPath # <<>> THEN groupPath[Len(groupPath)]
    ELSE 0

\* lines 364-406: the closure of one timer callback; active is the local
\* variable of line 365, which only the function returned at 403-405 clears
SearchClosure(query, scope) ==
    [query |-> query, scope |-> scope, active |-> TRUE]

\* the two requests a fired timer sends (lines 369 and 391)
SearchRequests(closure) ==
    SetToBag({[kind |-> "tree", closure |-> closure],
              [kind |-> "projects", closure |-> closure]})

\* line 406: the delay of the debounce timer
SEARCH_DEBOUNCE_MS ==
    250

\* a text change that leaves the timer of the previous text pending
PendingTimerKeptOnClear(text) ==
    IF Trim(text) = ""
    THEN searchTimer
    ELSE <<SearchClosure(Trim(text), ScopeGroupId)>>

\* a text change that sets a timer only when none is pending
PendingTimerNotReplaced(text) ==
    IF Trim(text) = "" THEN <<>>
    ELSE IF searchTimer # <<>> THEN searchTimer
    ELSE <<SearchClosure(Trim(text), ScopeGroupId)>>

\* the timer pending after the effect ran for the text: the cleanup (410-415)
\* cleared the previous one, the body sets one for a non-empty query (365)
PendingTimer(text) ==
    IF Trim(text) = ""
    THEN <<>>
    ELSE <<SearchClosure(Trim(text), ScopeGroupId)>>

\* the input's onChange (843): the effect's cleanup (410-415) clears the
\* pending timer, then the effect's body (348-408) runs for the new text
SetSearchText(text) ==
    /\ text # groupSearch
    /\ groupSearch' = text
    /\ IF Trim(text) = ""
       THEN /\ searchResults' = <<>>
            /\ searchProjectResults' = <<>>
            /\ searchLoading' = FALSE
            /\ searchProjectLoading' = FALSE
            /\ searchProjectError' = FALSE
       ELSE /\ searchLoading' = TRUE
            /\ searchProjectLoading' = TRUE
            /\ searchProjectError' = FALSE
            /\ UNCHANGED <<searchResults, searchProjectResults>>
    /\ searchTimer' = PendingTimer(text)
    /\ quietFor' = 0
    /\ UNCHANGED <<searchReqs, sidebarVars, cacheVars, listVars, projectVars>>

\* lines 364-406: the timer fires after 250 ms without a change of the text;
\* the function it returns (403-405) is dropped by setTimeout
TimerFire ==
    /\ searchTimer # <<>>
    /\ quietFor >= SEARCH_DEBOUNCE_MS
    /\ BagCardinality(searchReqs) + 2 <= MaxSearchReqs
    /\ searchReqs' = searchReqs (+) SearchRequests(searchTimer[1])
    /\ searchTimer' = <<>>
    /\ UNCHANGED <<groupSearch, searchResults, searchLoading, searchProjectResults,
                   searchProjectLoading, searchProjectError, quietFor,
                   sidebarVars, cacheVars, listVars, projectVars>>

\* half the delay passes without a change of the text
Wait ==
    /\ quietFor < SEARCH_DEBOUNCE_MS
    /\ quietFor' = Min(SEARCH_DEBOUNCE_MS, quietFor + SEARCH_DEBOUNCE_MS \div 2)
    /\ UNCHANGED <<groupSearch, searchResults, searchLoading, searchProjectResults,
                   searchProjectLoading, searchProjectError, searchTimer,
                   searchReqs, sidebarVars, cacheVars, listVars, projectVars>>

\* lines 367-387: api.groups({search}) resolves or fails
TreeResponse(req, ok) ==
    /\ BagIn(req, searchReqs)
    /\ req.kind = "tree"
    /\ searchReqs' = searchReqs (-) SetToBag({req})
    /\ IF req.closure.active
       THEN /\ searchResults' =
                 IF ok THEN SearchAnswer(req.closure.query, req.closure.scope)
                 ELSE <<>>
            /\ searchLoading' = FALSE
       ELSE UNCHANGED <<searchResults, searchLoading>>
    /\ UNCHANGED <<groupSearch, searchProjectResults, searchProjectLoading,
                   searchProjectError, searchTimer, quietFor,
                   sidebarVars, cacheVars, listVars, projectVars>>

\* lines 389-401: api.projects(scope, query) resolves or fails
ProjectsResponse(req, ok) ==
    /\ BagIn(req, searchReqs)
    /\ req.kind = "projects"
    /\ searchReqs' = searchReqs (-) SetToBag({req})
    /\ IF req.closure.active
       THEN /\ searchProjectResults' =
                 IF ok THEN SearchAnswer(req.closure.query, req.closure.scope)
                 ELSE <<>>
            /\ searchProjectError' = IF ok THEN searchProjectError ELSE TRUE
            /\ searchProjectLoading' = FALSE
       ELSE UNCHANGED <<searchProjectResults, searchProjectError,
                        searchProjectLoading>>
    /\ UNCHANGED <<groupSearch, searchResults, searchLoading, searchTimer,
                   quietFor, sidebarVars, cacheVars, listVars, projectVars>>

----------------------------------------------------------------------------
\* The persistent tree cache (utils/groupTree.ts)

\* line 4
GROUP_CACHE_TTL_MS ==
    60000

\* the clock is read at the instants 1 + a + b * TTL, a and b in 0..MaxTick
MaxTick ==
    2

Instants ==
    {1 + a + b * GROUP_CACHE_TTL_MS : a, b \in 0..MaxTick}

\* JavaScript values
Undefined ==
    [t |-> "undefined"]

Null ==
    [t |-> "null"]

NaN ==
    [t |-> "NaN"]

Str(s) ==
    [t |-> "string", s |-> s]

Num(n) ==
    [t |-> "number", n |-> n]

Arr(a) ==
    [t |-> "array", a |-> a]

Obj(o) ==
    [t |-> "object", o |-> o]

\* ToBoolean
Truthy(x) ==
    CASE x.t = "undefined" -> FALSE
      [] x.t = "null" -> FALSE
      [] x.t = "NaN" -> FALSE
      [] x.t = "string" -> x.s # ""
      [] x.t = "number" -> x.n # 0
      [] OTHER -> TRUE

\* x || y
Or(x, y) ==
    IF Truthy(x) THEN x ELSE y

\* String(x), on the values the cache meets
JsString(x) ==
    CASE x.t = "string" -> x
      [] x.t = "number" -> Str(IF x.n = 7 THEN "7" ELSE "0")
      [] x.t = "array" -> Str(IF x.a = <<>> THEN "" ELSE "1")
      [] x.t = "object" -> Str("[object Object]")
      [] OTHER -> Str(x.t)

\* Number(x), on the values the cache meets
JsNumber(x) ==
    CASE x.t = "number" -> x
      [] x.t = "string" -> IF x.s = "" THEN Num(0) ELSE NaN
      [] x.t = "null" -> Num(0)
      [] x.t = "array" -> IF x.a = <<>> THEN Num(0) ELSE Num(x.a[1])
      [] OTHER -> NaN

\* Date.now() - x > GROUP_CACHE_TTL_MS; a comparison with NaN is false
OlderThanTtl(x, at) ==
    x.t = "number" /\ at - x.n > GROUP_CACHE_TTL_MS

\* data.key: a property of a parsed value, undefined where there is none
Prop(data, key) ==
    IF data.t = "object" /\ key \in DOMAIN data.o THEN data.o[key] ELSE Undefined

\* what sessionStorage holds under STORAGE_KEY: text that is empty, text that
\* is no JSON, or the JSON text of a value
EmptyText ==
    [kind |-> "empty"]

Garbage ==
    [kind |-> "garbage"]

Json(value) ==
    [kind |-> "json", value |-> value]

\* lines 48-54: JSON.stringify leaves out the keys whose value is undefined
Stringify(record) ==
    Json(Obj([k \in {key \in DOMAIN record : record[key] # Undefined}
                |-> record[k]]))

\* the records saveGroupTreeCache is given (GroupTreeCacheRecord, lines 6-12)
Records ==
    [tree : {Arr(<<>>), Arr(<<1>>)},
     hash : {Str(""), Str("h1")},
     lastModified : {Str("m1")},
     lastModifiedHttp : {Undefined, Str(""), Str("lm")},
     storedAt : {Num(0), Num(now)}]

\* texts another writer, or an older version, may have left in the storage
ForeignTexts ==
    {EmptyText, Garbage, Json(Null), Json(Num(7)), Json(Arr(<<>>)),
     Json(Obj([hash |-> Str("h1")])),
     Json(Obj([tree |-> Str("x"), hash |-> Str("h1"), lastModified |-> Str("m1"),
               storedAt |-> Num(1)])),
     Json(Obj([tree |-> Arr(<<>>)])),
     Json(Obj([tree |-> Arr(<<1>>), hash |-> Str("h1"),
               lastModified |-> Str("m1")])),
     Json(Obj([tree |-> Arr(<<1>>), hash |-> Num(7), lastModified |-> Null,
               storedAt |-> Str("soon")]))}

\* the answer { stale: true }
StaleOnly ==
    [record |-> <<>>, stale |-> TRUE]

\* lines 28-40: the answer for a text that was read
LoadParsed(raw, at) ==
    IF raw.kind = "empty" THEN StaleOnly
    ELSE IF raw.kind = "garbage" THEN StaleOnly
    ELSE LET data == raw.value
         IN  IF ~Truthy(data) \/ Prop(data, "tree").t # "array" THEN StaleOnly
             ELSE LET record ==
                        [tree |-> Prop(data, "tree"),
                         hash |-> JsString(Or(Prop(data, "hash"), Str(""))),
                         lastModified |->
                            JsString(Or(Prop(data, "lastModified"), Str(""))),
                         lastModifiedHttp |->
                            IF Truthy(Prop(data, "lastModifiedHttp"))
                            THEN JsString(Prop(data, "lastModifiedHttp"))
                            ELSE Undefined,
                         storedAt |->
                            JsNumber(Or(Prop(data, "storedAt"), Num(at)))]
                  IN  [record |-> <<record>>,
                       stale |-> OlderThanTtl(record.storedAt, at)]

\* lines 22-44: loadGroupTreeCache() for a storage that throws or holds item
LoadResult(throws, item, at) ==
    IF throws THEN StaleOnly
    ELSE IF item = <<>> THEN StaleOnly
    ELSE LoadParsed(item[1], at)

\* lines 46-59: saveGroupTreeCache(record); a throwing storage is ignored
Save(record) ==
    /\ storage' = IF storageThrows THEN storage ELSE <<Stringify(record)>>
    /\ savedRecord' = IF storageThrows THEN <<>> ELSE <<record>>
    /\ loaded' = <<>>
    /\ UNCHANGED <<storageThrows, now, sidebarVars, searchVars, listVars, projectVars>>

\* lines 22-44: loadGroupTreeCache()
Load ==
    /\ loaded' = <<[result |-> LoadResult(storageThrows, storage, now),
                    throws |-> storageThrows, item |-> storage, at |-> now,
                    saved |-> savedRecord]>>
    /\ UNCHANGED <<storage, storageThrows, now, savedRecord, sidebarVars,
                   searchVars, listVars, projectVars>>

\* time passes
Advance ==
    /\ \E t \in Instants : t > now /\ now' = t
    /\ loaded' = <<>>
    /\ UNCHANGED <<storage, storageThrows, savedRecord, sidebarVars, searchVars, listVars, projectVars>>

\* the storage gets a text this code did not write, or loses its item
Corrupt ==
    /\ ~storageThrows
    /\ storage' \in {<<>>} \cup {<<text>> : text \in ForeignTexts}
    /\ storage' # storage
    /\ savedRecord' = <<>>
    /\ loaded' = <<>>
    /\ UNCHANGED <<storageThrows, now, sidebarVars, searchVars, listVars, projectVars>>

\* the storage starts or stops throwing (disabled, over quota)
StorageFlips ==
    /\ storageThrows' = ~storageThrows
    /\ savedRecord' = <<>>
    /\ loaded' = <<>>
    /\ UNCHANGED <<storage, now, sidebarVars, searchVars, listVars, projectVars>>

----------------------------------------------------------------------------
\* VirtualList (frontend/src/components/VirtualList.tsx)

\* items.length ranges over 0..MaxItems
MaxItems ==
    4
\* row heights range over 2..MaxRowHeight
MaxRowHeight ==
    4
\* the overscan prop ranges over 0..MaxOverscan
MaxOverscan ==
    1
\* the viewport's height ranges over 1..MaxViewport
MaxViewport ==
    5
\* the list starts at offset 0 or MaxOffset inside the scroll container
MaxOffset ==
    3
\* the content that follows the list is 0 or MaxTrailing high
MaxTrailing ==
    9

Max(a, b) ==
    IF a >= b THEN a ELSE b

\* Math.floor(a / b) and Math.ceil(a / b) for a >= 0, b > 0
Floor(a, b) ==
    a \div b

Ceil(a, b) ==
    (a + b - 1) \div b

\* useState({ start: 0, end: Math.min(items.length, overscan * 2) })
InitialRange(n, ov) ==
    [start |-> 0, end |-> Min(n, ov * 2)]

\* the start index recompute computes: the first row at the scroll offset,
\* less the overscan, not below 0
RangeStart(scroll, rh, ov) ==
    Max(0, Floor(scroll, rh) - ov)

\* recompute, as a function of what it reads
Recompute(isAttached, n, rh, ov, top, rel, viewport) ==
    IF ~isAttached
    THEN InitialRange(n, ov)
    ELSE LET rawScroll == top - rel
             scroll == IF rawScroll > 0 THEN rawScroll ELSE 0
         IN  [start |-> RangeStart(scroll, rh, ov),
              end |-> Min(n, Ceil(scroll + viewport, rh) + ov)]

\* the rows the render puts between the spacers: items.slice(start, end)
SliceLength(n, r) ==
    Max(0, Min(n, r.end) - Min(n, r.start))

TopPad ==
    range.start * rowHeight

BottomPad ==
    Max(0, (itemCount - range.end) * rowHeight)

\* the layout effect: a rendered row whose height differs from rowHeight by
\* more than 1 replaces it
Measured(n, r, rh, rendered) ==
    IF n > 0 /\ SliceLength(n, r) > 0 /\ (rendered - rh > 1 \/ rh - rendered > 1)
    THEN rendered
    ELSE rh

\* the furthest the container scrolls: its content is what precedes the list,
\* the list at its full height and what follows it
ScrollLimit(n, rendered, rel, after, viewport) ==
    Max(0, rel + n * rendered + after - viewport)

\* the effects after a render in which the list has n items, the row height
\* in state is rh and the container is at top: recompute, measure a row of
\* the new range, recompute with the height now in state
Settle(n, rh, top, viewport) ==
    LET r0 == Recompute(attached', n, rh, overscan', top, relativeTop', viewport)
        rh1 == Measured(n, r0, rh, renderedRowHeight')
    IN  /\ rowHeight' = rh1
        /\ range' = Recompute(attached', n, rh1, overscan', top, relativeTop', viewport)

ListIdle ==
    /\ listMounted = FALSE
    /\ attached = FALSE
    /\ itemCount = 0
    /\ estimatedRowHeight = 2
    /\ renderedRowHeight = 2
    /\ rowHeight = 2
    /\ overscan = 0
    /\ range = InitialRange(0, 0)
    /\ scrollTop = 0
    /\ relativeTop = 0
    /\ clientHeight = 1
    /\ trailing = 0

\* first render and its effects
ListMount(n, est, rendered, ov, rel, after, viewport, isAttached) ==
    /\ ~listMounted
    /\ listMounted' = TRUE
    /\ attached' = isAttached
    /\ itemCount' = n
    /\ estimatedRowHeight' = est
    /\ renderedRowHeight' = rendered
    /\ overscan' = ov
    /\ relativeTop' = rel
    /\ trailing' = after
    /\ clientHeight' = viewport
    /\ scrollTop' = 0
    /\ Settle(n, Measured(n, InitialRange(n, ov), est, rendered), 0, viewport)
    /\ UNCHANGED <<sidebarVars, searchVars, cacheVars, projectVars>>

\* a scroll event of the ancestor
Scroll(top) ==
    /\ listMounted
    /\ attached
    /\ top # scrollTop
    /\ top <= ScrollLimit(itemCount, renderedRowHeight, relativeTop, trailing,
                          clientHeight)
    /\ scrollTop' = top
    /\ UNCHANGED <<listMounted, attached, itemCount, estimatedRowHeight,
                   renderedRowHeight, overscan, relativeTop, clientHeight,
                   trailing>>
    /\ Settle(itemCount, rowHeight, top, clientHeight)
    /\ UNCHANGED <<sidebarVars, searchVars, cacheVars, projectVars>>

\* a resize of the window: the viewport changes, the browser keeps scrollTop
\* within the new limit
Resize(viewport) ==
    /\ listMounted
    /\ viewport # clientHeight
    /\ clientHeight' = viewport
    /\ scrollTop' = Min(scrollTop, ScrollLimit(itemCount, renderedRowHeight,
                                               relativeTop, trailing, viewport))
    /\ UNCHANGED <<listMounted, attached, itemCount, estimatedRowHeight,
                   renderedRowHeight, overscan, relativeTop, trailing>>
    /\ Settle(itemCount, rowHeight, scrollTop', viewport)
    /\ UNCHANGED <<sidebarVars, searchVars, cacheVars, projectVars>>

\* the parent renders the list with another number of items
SetItems(n) ==
    /\ listMounted
    /\ n # itemCount
    /\ itemCount' = n
    /\ scrollTop' = Min(scrollTop, ScrollLimit(n, renderedRowHeight, relativeTop,
                                               trailing, clientHeight))
    /\ UNCHANGED <<listMounted, attached, estimatedRowHeight, renderedRowHeight,
                   overscan, relativeTop, clientHeight, trailing>>
    /\ Settle(n, rowHeight, scrollTop', clientHeight)
    /\ UNCHANGED <<sidebarVars, searchVars, cacheVars, projectVars>>

----------------------------------------------------------------------------
\* Project lists of the active branch (Sidebar.tsx: ensureProjects and the
\* handlers of the project section)

\* groups with projects are 1..MaxProjectGroup
MaxProjectGroup ==
    2
\* projects the server lists for a group under the empty search
ProjectTotal ==
    5
\* projects the server lists for a group under the search "a"
ProjectMatches ==
    2
\* the clock advances up to MaxProjectClock half TTLs
MaxProjectClock ==
    2
\* at most MaxProjectReqs project requests are outstanding
MaxProjectReqs ==
    2

PROJECT_CACHE_TTL_MS ==
    30000
PROJECTS_PAGE_SIZE ==
    3

ProjectGroups ==
    1..MaxProjectGroup

\* what the user types while a branch is active
ProjectTexts ==
    {"", " ", "a"}

\* an optional field: <<>> is undefined, <<v>> holds v
None ==
    <<>>

Some(v) ==
    <<v>>

\* Array.prototype.slice(0, n)
Take(seq, n) ==
    SubSeq(seq, 1, Min(n, Len(seq)))

\* Date.now() in milliseconds
Millis(t) ==
    t * (PROJECT_CACHE_TTL_MS \div 2)

\* the projects of a group that match a search, as the server lists them;
\* the projects matching "a" are numbered from 11
ProjectList(g, key) ==
    IF key = ""
    THEN [i \in 1..ProjectTotal |-> i]
    ELSE [i \in 1..ProjectMatches |-> 10 + i]

\* page 1 of that list: ProjectListPage
ProjectsPage(g, key) ==
    LET all == ProjectList(g, key)
        more == Len(all) > PROJECTS_PAGE_SIZE
    IN  [items |-> Take(all, PROJECTS_PAGE_SIZE),
         next_page |-> IF more THEN 2 ELSE 0,
         has_more |-> more]

\* `${groupId}:${searchKey}`
PrefKey(g, key) ==
    <<g, key>>

\* updateProjectPref and persistProjectPrefs, as the new set of keys
UpdatedPrefs(prefs, g, key, expanded) ==
    IF expanded THEN prefs \cup {PrefKey(g, key)} ELSE prefs \ {PrefKey(g, key)}

\* the snapshot is fresh for the key: same key, not loading, younger than
\* the TTL
Fresh(map, g, key) ==
    /\ g \in DOMAIN map
    /\ map[g].searchKey = key
    /\ ~map[g].loading
    /\ Millis(projectClock) - Millis(map[g].fetchedAt) < PROJECT_CACHE_TTL_MS

\* the snapshot ensureProjects stores before it fetches
LoadingSnapshot(map, g, key) ==
    IF g \in DOMAIN map
    THEN [map[g] EXCEPT !.loading = TRUE,
                        !.error = FALSE,
                        !.searchKey = key,
                        !.allItems = IF map[g].searchKey = key
                                     THEN map[g].allItems ELSE None]
    ELSE [items |-> <<>>, loading |-> TRUE, error |-> FALSE, searchKey |-> key,
          fetchedAt |-> projectClock, nextPage |-> 0, hasMore |-> FALSE,
          firstPageItems |-> None, firstPageNext |-> 0, allItems |-> None]

\* ensureProjects(groupId, searchKey, {mode}): the state updater.  No caller
\* passes append, so the append branches are not taken
EnsuredMap(map, g, key, mode) ==
    IF mode # "all" /\ Fresh(map, g, key)
    THEN map
    ELSE (g :> LoadingSnapshot(map, g, key)) @@ map

\* ensureProjects: the request it sends.  shouldFetch is cleared inside the
\* state updater, which React runs at once (eager) or at the next render,
\* after ensureProjects has read the flag
EnsuredRequests(map, g, key, mode, eager) ==
    IF eager /\ mode # "all" /\ Fresh(map, g, key)
    THEN {}
    ELSE {[gid |-> g, key |-> key, mode |-> mode]}

\* the project activation effect: mode by the stored preference
ActivationMode(prefs, g, key) ==
    IF PrefKey(g, key) \in prefs THEN "all" ELSE "page"

Activated(map, prefs, g, key) ==
    EnsuredMap(map, g, key, ActivationMode(prefs, g, key))

ActivationRequests(map, prefs, g, key, eager) ==
    EnsuredRequests(map, g, key, ActivationMode(prefs, g, key), eager)

\* fetchProjects(...).then: page 1 replaces the items
PageLoaded(cur, req) ==
    LET payload == ProjectsPage(req.gid, req.key)
    IN  [items |-> payload.items,
         loading |-> FALSE,
         error |-> FALSE,
         searchKey |-> req.key,
         fetchedAt |-> projectClock,
         nextPage |-> payload.next_page,
         hasMore |-> payload.has_more,
         firstPageItems |-> Some(payload.items),
         firstPageNext |-> payload.next_page,
         allItems |-> cur.allItems]

\* current.firstPageItems || current.items.slice(0, PROJECTS_PAGE_SIZE)
FirstItems(cur) ==
    IF cur.firstPageItems # None
    THEN cur.firstPageItems[1]
    ELSE Take(cur.items, PROJECTS_PAGE_SIZE)

\* current.firstPageNext ?? current.nextPage ?? null
FirstNext(cur) ==
    IF cur.firstPageNext # 0 THEN cur.firstPageNext ELSE cur.nextPage

\* fetchAllProjects(...).then
AllLoaded(cur, req) ==
    LET allItems == ProjectList(req.gid, req.key)
        firstItems == FirstItems(cur)
    IN  [cur EXCEPT !.items = allItems,
                    !.loading = FALSE,
                    !.error = FALSE,
                    !.fetchedAt = projectClock,
                    !.nextPage = 0,
                    !.hasMore = FALSE,
                    !.firstPageItems =
                        Some(IF Len(firstItems) > 0 THEN firstItems
                             ELSE Take(allItems, PROJECTS_PAGE_SIZE)),
                    !.firstPageNext = FirstNext(cur),
                    !.allItems = Some(allItems)]

\* the catch of either fetch
FetchFailed(cur, req) ==
    IF req.mode = "all"
    THEN [cur EXCEPT !.loading = FALSE, !.error = TRUE]
    ELSE [cur EXCEPT !.loading = FALSE, !.error = TRUE, !.searchKey = req.key]

\* a collapse that goes back to the first page by discarding the complete list
CollapsedDiscardingAllItems(cur) ==
    [cur EXCEPT !.items = FirstItems(cur),
                !.nextPage = FirstNext(cur),
                !.hasMore = FirstNext(cur) # 0,
                !.loading = FALSE,
                !.error = FALSE,
                !.allItems = None]

\* handleCollapseProjects: the snapshot it stores
Collapsed(cur) ==
    LET firstItems == FirstItems(cur)
        firstNext == FirstNext(cur)
    IN  [cur EXCEPT !.items = firstItems,
                    !.nextPage = firstNext,
                    !.hasMore = \/ firstNext # 0
                                \/ /\ cur.allItems # None
                                   /\ Len(cur.allItems[1]) > Len(firstItems),
                    !.loading = FALSE,
                    !.error = FALSE]

\* handleLoadMoreProjects shows the cached complete list
ShowsCached(cur) ==
    /\ cur.allItems # None
    /\ Len(cur.allItems[1]) > Len(cur.items)

Expanded(cur) ==
    [cur EXCEPT !.items = cur.allItems[1],
                !.loading = FALSE,
                !.error = FALSE,
                !.nextPage = 0,
                !.hasMore = FALSE]

ProjectsIdle ==
    /\ projectsMounted = FALSE
    /\ activeGroup = 0
    /\ projectText = ""
    /\ projectsMap = EmptyFn
    /\ projectPrefsRef = {}
    /\ storedPrefs = {}
    /\ projectReqs = EmptyBag
    /\ projectClock = 0
    /\ justCollapsed = FALSE

\* a page with the sidebar loads with group g active: the state is new, the
\* preferences are read from the session storage, the activation effect runs
ProjectsMount(g) ==
    /\ ~projectsMounted
    /\ projectsMounted' = TRUE
    /\ activeGroup' = g
    /\ projectText' = ""
    /\ projectPrefsRef' = storedPrefs
    /\ projectsMap' = Activated(EmptyFn, storedPrefs, g, "")
    /\ projectReqs' = SetToBag(ActivationRequests(EmptyFn, storedPrefs, g, "", TRUE))
    /\ UNCHANGED <<storedPrefs, projectClock>>
    /\ justCollapsed' = FALSE
    /\ UNCHANGED <<sidebarVars, searchVars, cacheVars, listVars>>

\* the search text changes: the activation effect runs for the trimmed text
SetProjectText(text, eager) ==
    /\ projectsMounted
    /\ text # projectText
    /\ BagCardinality(projectReqs) < MaxProjectReqs
    /\ projectText' = text
    /\ projectsMap' = Activated(projectsMap, projectPrefsRef, activeGroup, Trim(text))
    /\ projectReqs' = projectReqs (+)
         SetToBag(ActivationRequests(projectsMap, projectPrefsRef, activeGroup,
                                     Trim(text), eager))
    /\ UNCHANGED <<projectsMounted, activeGroup, projectPrefsRef, storedPrefs,
                   projectClock>>
    /\ justCollapsed' = FALSE
    /\ UNCHANGED <<sidebarVars, searchVars, cacheVars, listVars>>

\* fetchProjects settles
ProjectPageResponse(req, ok) ==
    /\ projectsMounted
    /\ req \in DOMAIN projectReqs
    /\ req.mode = "page"
    /\ projectReqs' = projectReqs (-) SetToBag({req})
    /\ projectsMap' =
         IF req.gid \in DOMAIN projectsMap
         THEN (req.gid :> IF ok THEN PageLoaded(projectsMap[req.gid], req)
                                ELSE FetchFailed(projectsMap[req.gid], req))
              @@ projectsMap
         ELSE projectsMap
    /\ UNCHANGED <<projectsMounted, activeGroup, projectText, projectPrefsRef,
                   storedPrefs, projectClock>>
    /\ justCollapsed' = FALSE
    /\ UNCHANGED <<sidebarVars, searchVars, cacheVars, listVars>>

\* fetchAllProjects settles; a success records the preference
AllProjectsResponse(req, ok) ==
    /\ projectsMounted
    /\ req \in DOMAIN projectReqs
    /\ req.mode = "all"
    /\ projectReqs' = projectReqs (-) SetToBag({req})
    /\ projectsMap' =
         IF req.gid \in DOMAIN projectsMap
         THEN (req.gid :> IF ok THEN AllLoaded(projectsMap[req.gid], req)
                                ELSE FetchFailed(projectsMap[req.gid], req))
              @@ projectsMap
         ELSE projectsMap
    /\ projectPrefsRef' =
         IF ok THEN UpdatedPrefs(projectPrefsRef, req.gid, req.key, TRUE)
               ELSE projectPrefsRef
    /\ storedPrefs' = IF ok THEN projectPrefsRef' ELSE storedPrefs
    /\ UNCHANGED <<projectsMounted, activeGroup, projectText, projectClock>>
    /\ justCollapsed' = FALSE
    /\ UNCHANGED <<sidebarVars, searchVars, cacheVars, listVars>>

\* handleLoadMoreProjects, offered while hasMore and not loading
LoadMoreProjects ==
    /\ projectsMounted
    /\ activeGroup \in DOMAIN projectsMap
    /\ LET cur == projectsMap[activeGroup]
           key == Trim(projectText)
       IN  /\ cur.hasMore
           /\ ~cur.loading
           /\ IF ShowsCached(cur)
              THEN /\ projectsMap' = (activeGroup :> Expanded(cur)) @@ projectsMap
                   /\ projectPrefsRef' =
                        UpdatedPrefs(projectPrefsRef, activeGroup, key, TRUE)
                   /\ storedPrefs' = projectPrefsRef'
                   /\ UNCHANGED projectReqs
              ELSE /\ BagCardinality(projectReqs) < MaxProjectReqs
                   /\ projectsMap' = EnsuredMap(projectsMap, activeGroup, key, "all")
                   /\ projectReqs' = projectReqs (+)
                        SetToBag(EnsuredRequests(projectsMap, activeGroup, key,
                                                 "all", TRUE))
                   /\ UNCHANGED <<projectPrefsRef, storedPrefs>>
    /\ UNCHANGED <<projectsMounted, activeGroup, projectText, projectClock>>
    /\ justCollapsed' = FALSE
    /\ UNCHANGED <<sidebarVars, searchVars, cacheVars, listVars>>

\* handleCollapseProjects, offered while more than the first page is shown
\* and the branch is not loading
CollapseProjects ==
    /\ projectsMounted
    /\ activeGroup \in DOMAIN projectsMap
    /\ LET cur == projectsMap[activeGroup]
       IN  /\ cur.hasMore \/ cur.allItems # None
           /\ ~cur.loading
           /\ Len(cur.items) > (IF cur.firstPageItems # None
                                THEN Len(cur.firstPageItems[1])
                                ELSE PROJECTS_PAGE_SIZE)
           /\ projectsMap' = (activeGroup :> Collapsed(cur)) @@ projectsMap
    /\ projectPrefsRef' =
         UpdatedPrefs(projectPrefsRef, activeGroup, Trim(projectText), FALSE)
    /\ storedPrefs' = projectPrefsRef'
    /\ UNCHANGED <<projectsMounted, activeGroup, projectText, projectReqs,
                   projectClock>>
    /\ justCollapsed' = TRUE
    /\ UNCHANGED <<sidebarVars, searchVars, cacheVars, listVars>>

\* the page goes away: its state and its outstanding requests go with it
Unloaded ==
    /\ projectsMounted' = FALSE
    /\ activeGroup' = 0
    /\ projectText' = ""
    /\ projectsMap' = EmptyFn
    /\ projectReqs' = EmptyBag

\* handleGroupClick on another group g: the page navigates to /group/g,
\* onPickGroup returns false and the handler clears the preference of g
ClickGroup(g) ==
    /\ projectsMounted
    /\ g # activeGroup
    /\ projectPrefsRef' = projectPrefsRef \ {PrefKey(g, Trim(projectText))}
    /\ storedPrefs' = IF PrefKey(g, Trim(projectText)) \in projectPrefsRef
                      THEN projectPrefsRef' ELSE storedPrefs
    /\ Unloaded
    /\ UNCHANGED projectClock
    /\ justCollapsed' = FALSE
    /\ UNCHANGED <<sidebarVars, searchVars, cacheVars, listVars>>

\* the root button of the breadcrumbs: every preference is cleared and the
\* page navigates to the root
ClickRoot ==
    /\ projectsMounted
    /\ projectPrefsRef' = {}
    /\ storedPrefs' = {}
    /\ Unloaded
    /\ UNCHANGED projectClock
    /\ justCollapsed' = FALSE
    /\ UNCHANGED <<sidebarVars, searchVars, cacheVars, listVars>>

\* the user reloads the page or leaves it by another link
LeavePage ==
    /\ projectsMounted
    /\ Unloaded
    /\ UNCHANGED <<projectPrefsRef, storedPrefs, projectClock>>
    /\ justCollapsed' = FALSE
    /\ UNCHANGED <<sidebarVars, searchVars, cacheVars, listVars>>

\* time passes
ProjectClockTick ==
    /\ projectClock < MaxProjectClock
    /\ projectClock' = projectClock + 1
    /\ UNCHANGED <<projectsMounted, activeGroup, projectText, projectsMap,
                   projectPrefsRef, storedPrefs, projectReqs>>
    /\ UNCHANGED justCollapsed
    /\ UNCHANGED <<sidebarVars, searchVars, cacheVars, listVars>>

----------------------------------------------------------------------------
\* The other components at rest

SearchIdle ==
    /\ groupSearch = ""
    /\ searchResults = <<>>
    /\ searchLoading = FALSE
    /\ searchProjectResults = <<>>
    /\ searchProjectLoading = FALSE
    /\ searchProjectError = FALSE
    /\ searchTimer = <<>>
    /\ searchReqs = EmptyBag
    /\ quietFor = 0

CacheIdle ==
    /\ storage = <<>>
    /\ storageThrows = FALSE
    /\ now = 1
    /\ savedRecord = <<>>
    /\ loaded = <<>>

Init ==
    SidebarInit /\ SearchIdle /\ CacheIdle /\ ListIdle /\ ProjectsIdle

Next ==
    \/ Mount
    \/ \E g \in Groups : Select(g)
    \/ ShowMore
    \/ Collapse
    \/ ServerChange
    \/ RevalTick
    \/ \E req \in DOMAIN inflight, ok \in BOOLEAN : LevelResponse(req, ok)
    \/ \E req \in pathReqs, ok \in BOOLEAN : PathResponse(req, ok)
    \/ \E cid \in 1..MaxCycles, ok \in BOOLEAN : RevalCheckResponse(cid, ok)
    \/ \E cid \in 1..MaxCycles, ok \in BOOLEAN : RevalPathResponse(cid, ok)

Spec ==
    Init /\ [][Next]_vars

\* the sidebar under an owner that may change the selection it mounted the
\* sidebar with, the user leaving the levels as they are
SelectionNext ==
    \/ Mount
    \/ \E g \in {0} \cup Groups : SelectionChange(g)
    \/ ServerChange
    \/ RevalTick
    \/ \E req \in DOMAIN inflight, ok \in BOOLEAN : LevelResponse(req, ok)
    \/ \E req \in pathReqs, ok \in BOOLEAN : PathResponse(req, ok)
    \/ \E cid \in 1..MaxCycles, ok \in BOOLEAN : RevalCheckResponse(cid, ok)
    \/ \E cid \in 1..MaxCycles, ok \in BOOLEAN : RevalPathResponse(cid, ok)

SelectionSpec ==
    Init /\ [][SelectionNext]_vars

SearchNext ==
    \/ \E text \in Texts : SetSearchText(text)
    \/ TimerFire
    \/ Wait
    \/ \E req \in DOMAIN searchReqs, ok \in BOOLEAN : TreeResponse(req, ok)
    \/ \E req \in DOMAIN searchReqs, ok \in BOOLEAN : ProjectsResponse(req, ok)

SearchSpec ==
    Init /\ [][SearchNext]_vars

CacheNext ==
    \/ \E record \in Records : Save(record)
    \/ Load
    \/ Advance
    \/ Corrupt
    \/ StorageFlips

CacheSpec ==
    Init /\ [][CacheNext]_vars

ListNext ==
    \/ \E n \in 0..MaxItems, est \in 2..MaxRowHeight, rendered \in 2..MaxRowHeight,
          ov \in 0..MaxOverscan, rel \in {0, MaxOffset}, after \in {0, MaxTrailing},
          viewport \in 1..MaxViewport, isAttached \in BOOLEAN :
            ListMount(n, est, rendered, ov, rel, after, viewport, isAttached)
    \/ \E top \in 0..(MaxOffset + MaxItems * MaxRowHeight + MaxTrailing) : Scroll(top)
    \/ \E viewport \in 1..MaxViewport : Resize(viewport)
    \/ \E n \in 0..MaxItems : SetItems(n)

ListSpec ==
    Init /\ [][ListNext]_vars

ProjectsNext ==
    \/ \E g \in ProjectGroups : ProjectsMount(g)
    \/ \E text \in ProjectTexts, eager \in BOOLEAN : SetProjectText(text, eager)
    \/ \E req \in DOMAIN projectReqs, ok \in BOOLEAN : ProjectPageResponse(req, ok)
    \/ \E req \in DOMAIN projectReqs, ok \in BOOLEAN : AllProjectsResponse(req, ok)
    \/ LoadMoreProjects
    \/ CollapseProjects
    \/ \E g \in ProjectGroups : ClickGroup(g)
    \/ ClickRoot
    \/ LeavePage
    \/ ProjectClockTick

ProjectsSpec ==
    Init /\ [][ProjectsNext]_vars

----------------------------------------------------------------------------
\* Properties of the level loader

\* a level request the step sends: one more copy of it is outstanding after
SentNow(r) ==
    CopiesIn(r, inflight') > CopiesIn(r, inflight)

NoDuplicates(items) ==
    \A i, j \in 1..Len(items) : items[i] = items[j] => i = j

IsPrefix(items, list) ==
    /\ Len(items) <= Len(list)
    /\ \A i \in 1..Len(items) : items[i] = list[i]

\* C2: a call of loadGroupList without reset that is made while a request for
\* the same level key is outstanding sends no request: every step that sends
\* a non-reset request for a key starts from a state with no outstanding
\* request for that key.
C2_NonResetCallSendsNothingWhileOutstanding ==
    [][\A r \in DOMAIN inflight' :
          (~r.reset /\ SentNow(r)) => Outstanding(r.key) = 0]_vars

\* C2, the case reached: a load-more request for the root level is outstanding
\* together with a mount request for the root level
C2_Overlap ==
    /\ \E r \in DOMAIN inflight : r.key = RootKey /\ ~r.reset
    /\ \E r \in DOMAIN inflight : r.key = RootKey /\ r.reset

\* C3: every level holds a prefix of the server's list, hence no group twice;
\* and once load-more has run the cursor to null (the level is loaded, not
\* errored) the items are the whole list, their number the reported total.
C3_LoadMoreEndsWithWholeList ==
    \A k \in DOMAIN groupLists :
        LET s == groupLists[k]
        IN  /\ IsPrefix(s.items, ServerList(k))
            /\ NoDuplicates(s.items)
            /\ (~s.loading /\ ~s.error /\ s.cursor = NoCursor)
                  => /\ Len(s.items) = s.total
                     /\ s.total = ServerTotal(k)

\* C3, the case reached: the root and a child level after their last page
C3_TwoPagesLoaded ==
    \A k \in Keys :
        /\ k \in DOMAIN groupLists
        /\ ~groupLists[k].loading
        /\ ~groupLists[k].error
        /\ groupLists[k].cursor = NoCursor
        /\ Len(groupLists[k].items) > groupLists[k].initialLimit
        /\ Len(groupLists[k].items) = ServerTotal(k)

\* what a failed request for key K must leave of the level K holds
FailureKeeps(req) ==
    LET k == req.key
    IN  k \in DOMAIN groupLists =>
          /\ k \in DOMAIN groupLists'
          /\ groupLists'[k].items = groupLists[k].items
          /\ groupLists'[k].cursor = groupLists[k].cursor
          /\ groupLists'[k].total = groupLists[k].total
          /\ groupLists'[k].loading = FALSE
          /\ groupLists'[k].error = TRUE
          /\ req.cid = 0 =>
                \A j \in DOMAIN groupLists \ {k} :
                    j \in DOMAIN groupLists' /\ groupLists'[j] = groupLists[j]

\* C4: when a request for level key K fails, the items, cursor and total K
\* holds at that moment stay as they are, K gets loading = false and an error,
\* and no other level changes.
C4_FailureKeepsLevel ==
    [][\A req \in DOMAIN inflight :
          LevelResponse(req, FALSE) => FailureKeeps(req)]_vars

\* C4, the case reached: a root level that was loaded and then lost its items
\* to the failure of the other mount request
C4_ItemsLost ==
    /\ RootKey \in DOMAIN groupLists
    /\ groupLists[RootKey].error
    /\ groupLists[RootKey].items = <<>>
    /\ rootMetaRef.hash # 0
    /\ inflight = EmptyBag
    /\ CyclesInProgress = {}

----------------------------------------------------------------------------
\* Properties of the revalidation loop

\* the step in which the conditional request of cycle cid resolves or fails
CheckResolves(cid) ==
    cycles[cid].stage = "check" /\ cycles'[cid].stage # "check"

\* C5: when the conditional request is answered for the hash the server still
\* has (changed = false), the step changes no level, no branch path and no
\* stored marker, sends no request, and ends the cycle.
C5_UnchangedAnswerChangesNothing ==
    [][\A cid \in 1..MaxCycles :
          (CheckResolves(cid) /\ cycles[cid].sent = serverHash) =>
              /\ UNCHANGED <<groupLists, groupListsRef, groupPath, rootMetaRef>>
              /\ UNCHANGED <<inflight, pathReqs>>
              /\ cycles'[cid] = NoCycle]_vars

\* C5, the case reached: a check was just answered unchanged while the root
\* and a child level were loaded and a branch path was resolved
C5_UnchangedWithLevels ==
    /\ lastStep = "RevalUnchanged"
    /\ groupPath # <<>>
    /\ \A k \in Keys : k \in DOMAIN groupLists /\ groupLists[k].items # <<>>

\* C6: at no time are two revalidation cycles in progress, and the flag of the
\* overlap guard is set exactly while one is: a tick that fires during a cycle
\* starts nothing.
C6_AtMostOneCycle ==
    /\ Cardinality(CyclesInProgress) <= 1
    /\ revalidateTickRef <=> CyclesInProgress # {}

\* C6, the case reached: a cycle that detected a change is in the middle of
\* its reloads, where the interval may fire again
C6_CycleRunning ==
    /\ revalidateTickRef
    /\ \E c \in CyclesInProgress :
          cycles[c].stage = "levels" /\ cycles[c].idx > 0

\* the level key cycle c reloads at position idx of its root-first list
CycleKey(c) ==
    IF c.idx = 0 THEN RootKey ELSE c.path[c.idx]

\* while cycle cid reloads levels it awaits exactly one request: a reset load,
\* from the first page, of the level its position names
CycleAwaitsReset(cid) ==
    LET mine == {r \in DOMAIN inflight : r.cid = cid}
    IN  /\ Cardinality(mine) = 1
        /\ \A r \in mine :
              /\ inflight[r] = 1
              /\ r.key = CycleKey(cycles[cid])
              /\ r.reset
              /\ r.cursor = NoCursor
              /\ r.limit = DefaultLimit(r.key)

\* the step in which the check of cycle cid is answered changed = true
ChangeObserved(cid) ==
    RevalCheckResponse(cid, TRUE) /\ cycles[cid].sent # serverHash

----------------------------------------------------------------------------
\* Liveness of the revalidation loop

\* The interval keeps firing and the mount effects run (weak fairness); the
\* server keeps answering: a request that can be answered successfully again
\* and again eventually is (strong fairness of the successful answers).
Fairness ==
    /\ WF_vars(Mount)
    /\ WF_vars(RevalTick)
    /\ SF_vars(\E req \in DOMAIN inflight : LevelResponse(req, TRUE))
    /\ SF_vars(\E req \in pathReqs : PathResponse(req, TRUE))
    /\ \A cid \in 1..MaxCycles :
          /\ SF_vars(RevalCheckResponse(cid, TRUE))
          /\ SF_vars(RevalPathResponse(cid, TRUE))

FairSpec ==
    Init /\ [][Next]_vars /\ Fairness

\* the hierarchy changed after the mount and the sidebar's marker is not that
\* of the hierarchy as it is now
Stale ==
    mounted /\ serverHash # 1 /\ rootMetaRef.hash # serverHash

\* the sidebar holds the marker of the hierarchy as it is now: a revalidation
\* observed the change, or a root load returned it
Caught ==
    rootMetaRef.hash = serverHash

\* no request is outstanding: whatever the server is asked from here on is
\* asked anew
Quiet ==
    inflight = EmptyBag /\ pathReqs = {} /\ CyclesInProgress = {}

\* C8: once the hierarchy has changed after the mount, a revalidation tick
\* eventually observes the change and reloads the root, from every reachable
\* state: under the fairness of the timer and of the answers, every stale
\* state with nothing outstanding, also one the failed root loads of the
\* mount left, leads to a state where the sidebar holds the current marker.
C8_StalenessEventuallyCaught ==
    (Stale /\ Quiet) ~> Caught

\* C8, the case reached: both root loads of the mount failed, the hierarchy
\* changed, nothing is outstanding and the sidebar holds no marker
C8_NoMarkerAfterChange ==
    /\ Stale
    /\ NoMarker
    /\ RootKey \in DOMAIN groupLists
    /\ groupLists[RootKey].error
    /\ Quiet

----------------------------------------------------------------------------
\* Properties of the search effect

\* the query the text now in the input stands for
CurrentQuery ==
    Trim(groupSearch)

\* the search for the current query is still on its way: its timer is pending
\* or a request of the given kind for it is outstanding
CurrentPending(kind) ==
    \/ searchTimer # <<>>
    \/ \E r \in DOMAIN searchReqs :
          r.kind = kind /\ r.closure.query = CurrentQuery

\* C1: the response of a superseded query is not applied: the results shown
\* are those of the query now in the input, and a loading flag stays set while
\* the search for that query is on its way.
C1_StaleResponseDiscarded ==
    /\ \A i \in 1..Len(searchResults) : searchResults[i].query = CurrentQuery
    /\ \A i \in 1..Len(searchProjectResults) :
          searchProjectResults[i].query = CurrentQuery
    /\ (CurrentQuery # "" /\ CurrentPending("tree")) => searchLoading
    /\ (CurrentQuery # "" /\ CurrentPending("projects")) => searchProjectLoading

\* C1, the case reached: the requests of the current query are outstanding
\* while the results of an earlier query are shown and the flag is cleared
C1_StaleApplied ==
    /\ CurrentQuery # ""
    /\ \E r \in DOMAIN searchReqs :
          r.kind = "tree" /\ r.closure.query = CurrentQuery
    /\ searchResults # <<>>
    /\ searchResults[1].query # CurrentQuery
    /\ ~searchLoading

----------------------------------------------------------------------------
\* Properties of the persistent tree cache

\* C9: a load that follows a save, with nothing but time in between, returns
\* the saved record field by field with stale = false while now - storedAt is
\* at most the TTL, and stale = true once it is more.
C9_SaveLoadRoundTrip ==
    (loaded # <<>> /\ loaded[1].saved # <<>>) =>
        LET record == loaded[1].saved[1]
            result == loaded[1].result
        IN  IF loaded[1].at - record.storedAt.n <= GROUP_CACHE_TTL_MS
            THEN result = [record |-> <<record>>, stale |-> FALSE]
            ELSE result.stale

\* C9, the case reached: the load returned a record that differs from the one
\* saved just before
C9_RecordChanged ==
    /\ loaded # <<>>
    /\ loaded[1].saved # <<>>
    /\ loaded[1].result.record # <<>>
    /\ loaded[1].result.record # loaded[1].saved

\* the stored text is the JSON text of a whole record: an object with a tree
\* array, the strings hash and lastModified, a number storedAt and, if
\* present, a string lastModifiedHttp
WholeRecord(item) ==
    /\ item # <<>>
    /\ item[1].kind = "json"
    /\ LET data == item[1].value
       IN  /\ data.t = "object"
           /\ Prop(data, "tree").t = "array"
           /\ Prop(data, "hash").t = "string"
           /\ Prop(data, "lastModified").t = "string"
           /\ Prop(data, "storedAt").t = "number"
           /\ Prop(data, "lastModifiedHttp").t \in {"string", "undefined"}

\* C10: when the storage throws, or its item is absent, is no JSON, has the
\* wrong shape or lacks keys of the record, loadGroupTreeCache answers
\* { stale: true } and nothing else.
C10_LoadFailsSoft ==
    (loaded # <<>> /\ (loaded[1].throws \/ ~WholeRecord(loaded[1].item)))
        => loaded[1].result = StaleOnly

\* C10, the case reached: a text that lacks keys of the record was loaded as
\* a fresh record
C10_BrokenTextLoadedFresh ==
    /\ loaded # <<>>
    /\ ~loaded[1].throws
    /\ ~WholeRecord(loaded[1].item)
    /\ loaded[1].result.record # <<>>
    /\ ~loaded[1].result.stale

----------------------------------------------------------------------------
\* Properties of VirtualList

\* the indexes whose row [i * R, (i + 1) * R) meets [S, S + V], S being the
\* scroll offset relative to the list
RowsInView ==
    LET S == scrollTop - relativeTop
    IN  {i \in 0..(itemCount - 1) :
            /\ i * rowHeight <= S + clientHeight
            /\ (i + 1) * rowHeight > S}

Lowest(set) ==
    CHOOSE i \in set : \A j \in set : i <= j

Highest(set) ==
    CHOOSE i \in set : \A j \in set : j <= i

\* C11: the computed range [start, end) lies within [0, N], contains every
\* index whose row meets the viewport [S, S + V], and reaches exactly overscan
\* rows before the first and after the last such row, clamped to [0, N]
C11_WindowCoversViewportPlusOverscan ==
    (listMounted /\ attached) =>
        /\ 0 <= range.start
        /\ range.start <= range.end
        /\ range.end <= itemCount
        /\ RowsInView \subseteq range.start..(range.end - 1)
        /\ RowsInView # {} =>
            /\ range.start = Max(0, Lowest(RowsInView) - overscan)
            /\ range.end = Min(itemCount, Highest(RowsInView) + 1 + overscan)

\* C11 (case): the container is scrolled beyond the last row and the range
\* starts after the last index
C11_StartBeyondItems ==
    /\ listMounted
    /\ attached
    /\ rowHeight = renderedRowHeight
    /\ scrollTop - relativeTop > itemCount * rowHeight
    /\ range.start > itemCount

\* C12: whenever rows are rendered, 0 <= start <= end <= items.length, both
\* spacers are non-negative, and the spacers and the rows of the range add up
\* to the height of the whole list
C12_SpacersAddUpToWholeList ==
    (listMounted /\ itemCount > 0) =>
        /\ 0 <= range.start
        /\ range.start <= range.end
        /\ range.end <= itemCount
        /\ TopPad >= 0
        /\ BottomPad >= 0
        /\ TopPad + (range.end - range.start) * rowHeight + BottomPad
             = itemCount * rowHeight

\* C12 (case): the top spacer alone is taller than the whole list
C12_TopSpacerTallerThanList ==
    /\ listMounted
    /\ itemCount > 0
    /\ rowHeight = renderedRowHeight
    /\ TopPad > itemCount * rowHeight
    /\ SliceLength(itemCount, range) = 0

----------------------------------------------------------------------------
\* Properties of the project lists

\* the snapshot of the active branch, before and after the step
ActiveSnapshot ==
    projectsMap[activeGroup]

ActiveSnapshotAfter ==
    projectsMap'[activeGroup]

\* the active branch holds a complete list fetched by a show-all escalation
HoldsAllItems ==
    /\ projectsMounted
    /\ activeGroup \in DOMAIN projectsMap
    /\ ActiveSnapshot.allItems # None

ProjectSentNow(r) ==
    CopiesIn(r, projectReqs') > CopiesIn(r, projectReqs)

\* the step runs the activation effect: a page loads, or the text changes
ActivationStep ==
    /\ projectsMounted'
    /\ ~projectsMounted \/ projectText' # projectText

\* C14: a successful show-all fetch stores the preference of its pair and a
\* failed one stores nothing; a stored preference stays until the user
\* collapses that pair; an activation of a pair whose preference is stored
\* sends the complete-list fetch and no page fetch
C14_ShowAllPreferenceKeptUntilCollapse ==
    [][/\ \A req \in DOMAIN projectReqs :
            /\ AllProjectsResponse(req, TRUE) =>
                   PrefKey(req.gid, req.key) \in storedPrefs'
            /\ AllProjectsResponse(req, FALSE) => storedPrefs' = storedPrefs
       /\ \A pair \in storedPrefs \ storedPrefs' :
            /\ CollapseProjects
            /\ pair = PrefKey(activeGroup, Trim(projectText))
       /\ (/\ ActivationStep
           /\ PrefKey(activeGroup', Trim(projectText')) \in storedPrefs) =>
            /\ ProjectSentNow([gid |-> activeGroup', key |-> Trim(projectText'),
                               mode |-> "all"])
            /\ \A r \in DOMAIN projectReqs' : ProjectSentNow(r) => r.mode = "all"]_vars

\* C14 (case): the page of one group is shown while the show-all preference
\* of another group is stored for the current search text
C14_PreferenceOfOtherGroupStored ==
    /\ projectsMounted
    /\ \E g \in ProjectGroups :
        /\ g # activeGroup
        /\ PrefKey(g, Trim(projectText)) \in storedPrefs

----------------------------------------------------------------------------
\* Properties of the search effect

\* a search request the step sends
SearchSentNow(r) ==
    CopiesIn(r, searchReqs') > CopiesIn(r, searchReqs)

\* C15: a change of the text to one that trims to nothing clears both result
\* lists, both loading flags and the project-search error and cancels the
\* pending timer in that step; while the text trims to nothing no timer is
\* pending and no search request is sent
C15_ClearedSearchSendsNothing ==
    /\ [](Trim(groupSearch) = "" => searchTimer = <<>>)
    /\ [][/\ (groupSearch' # groupSearch /\ Trim(groupSearch') = "") =>
                /\ searchResults' = <<>>
                /\ searchProjectResults' = <<>>
                /\ ~searchLoading'
                /\ ~searchProjectLoading'
                /\ ~searchProjectError'
                /\ searchTimer' = <<>>
          /\ Trim(groupSearch) = "" =>
                \A r \in DOMAIN searchReqs' : ~SearchSentNow(r)]_vars

\* C15 (case): the text was cleared after a search had been sent: the lists
\* and flags are clear while that search is still outstanding
C15_ClearedWithSearchOutstanding ==
    /\ Trim(groupSearch) = ""
    /\ searchReqs # EmptyBag
    /\ searchTimer = <<>>
    /\ searchResults = <<>>
    /\ searchProjectResults = <<>>
    /\ ~searchLoading
    /\ ~searchProjectLoading

\* C16: a request is sent only when the text has been unchanged for 250 ms,
\* and then for the current text; a pending timer is always the one set for
\* the current text, so the texts of a burst before the last send nothing
C16_RequestsOnlyAfterQuietPeriod ==
    /\ [](searchTimer # <<>> => searchTimer[1].query = Trim(groupSearch))
    /\ [][\A r \in DOMAIN searchReqs' :
            SearchSentNow(r) =>
                /\ quietFor >= SEARCH_DEBOUNCE_MS
                /\ groupSearch' = groupSearch
                /\ r.closure.query = Trim(groupSearch)]_vars

\* C16 (case): the text is "b", its search was sent after the quiet period
\* and is outstanding, and no request for another text is
C16_BurstSentLastTextOnly ==
    /\ groupSearch = "b"
    /\ searchReqs # EmptyBag
    /\ \A r \in DOMAIN searchReqs : r.closure.query = "b"
    /\ searchResults = <<>>
    /\ searchLoading

----------------------------------------------------------------------------
\* Properties of the level loader: counts, merge, request, show more

\* C17: in every reachable state and for every level key the number of
\* displayed items is at least 0 and at most the number of items held.
C17_DisplayCountWithinItems ==
    \A k \in DOMAIN groupLists :
        /\ 0 <= groupLists[k].displayCount
        /\ groupLists[k].displayCount <= Len(groupLists[k].items)

\* C17, the case reached: a level collapsed to its initial limit that holds
\* more than it displays, next to a level that displays all it holds
C17_CollapsedBelowItems ==
    /\ RootKey \in DOMAIN groupLists
    /\ 1 \in DOMAIN groupLists
    /\ ~groupLists[1].loading
    /\ groupLists[1].displayCount = groupLists[1].initialLimit
    /\ groupLists[1].displayCount < Len(groupLists[1].items)
    /\ groupLists[RootKey].displayCount = Len(groupLists[RootKey].items)
    /\ Len(groupLists[RootKey].items) > groupLists[RootKey].initialLimit

\* the step is the arrival of the successful response to the request req
Arrives(req) ==
    /\ BagIn(req, inflight)
    /\ CopiesIn(req, inflight') < CopiesIn(req, inflight)
    /\ req.key \in DOMAIN groupLists'
    /\ ~groupLists'[req.key].error

\* C18: when the response to a load-more request sent without reset arrives,
\* the level's items become the items the level held followed by the items of
\* the response, in order; when the response to a reset request arrives, the
\* level's items become exactly the items of the response.
C18_ResponseAppendsOrReplaces ==
    [][\A req \in DOMAIN inflight :
          Arrives(req) =>
            LET response == ServerPage(req.key, req.cursor, req.limit)
                held == IF req.key \in DOMAIN groupLists
                        THEN groupLists[req.key].items ELSE <<>>
            IN  groupLists'[req.key].items =
                  IF req.reset THEN response.items
                  ELSE held \o response.items]_vars

\* C18, the case reached: a load-more request is outstanding for a level
\* that a reset reload has meanwhile replaced, so the level no longer holds
\* the items the request's call read
C18_LevelReplacedWhileLoadingMore ==
    \E req \in DOMAIN inflight :
        /\ ~req.reset
        /\ req.cursor # NoCursor
        /\ req.prev # <<>>
        /\ req.key \in DOMAIN groupLists
        /\ ~groupLists[req.key].error
        /\ ~groupLists[req.key].loading
        /\ Len(groupLists[req.key].items) < Len(req.prev[1].items)
        /\ Len(groupLists[req.key].items) > 0

\* the cursor the level of a request holds when the request is sent: none for
\* a reset call or an absent level
StoredCursor(r) ==
    IF r.reset \/ r.key \notin DOMAIN groupLists THEN NoCursor
    ELSE groupLists[r.key].cursor

\* C19: every request loadGroupList sends follows the stored cursor of its
\* level.  Without a stored cursor (first page or reset) the request carries
\* no cursor and the initial limit, 6 for the root and 4 for a child level;
\* with a stored cursor it carries that cursor, which is the next_cursor the
\* server last returned for the key, and the page limit, 24 for the root and
\* 12 for a child level.
C19_RequestFollowsStoredCursor ==
    [][\A r \in DOMAIN inflight' :
          SentNow(r) =>
            IF StoredCursor(r) = NoCursor
            THEN /\ r.cursor = NoCursor
                 /\ r.limit = r.initialLimit
                 /\ r.initialLimit = DefaultLimit(r.key)
            ELSE /\ r.cursor = StoredCursor(r)
                 /\ r.limit = PageLimit(r.key)
                 /\ r.key \in DOMAIN returnedCursor
                 /\ r.cursor = returnedCursor[r.key]]_vars

\* C19, the case reached: a level at rest whose stored cursor is not the
\* next_cursor the server last returned for it, with "show more" on offer
C19_StoredCursorNotLastReturned ==
    /\ HasMoreGroups
    /\ ActiveGroupId \in DOMAIN groupLists
    /\ ActiveGroupId \in DOMAIN returnedCursor
    /\ ~groupLists[ActiveGroupId].loading
    /\ groupLists[ActiveGroupId].cursor # NoCursor
    /\ groupLists[ActiveGroupId].cursor # returnedCursor[ActiveGroupId]

\* the level handleShowMoreGroups acts on holds more items than it displays
HoldsMoreThanDisplayed ==
    /\ ActiveGroupId \in DOMAIN groupLists
    /\ groupLists[ActiveGroupId].displayCount < Len(groupLists[ActiveGroupId].items)

\* C20: whenever the level holds more items than it displays, a call of
\* handleShowMoreGroups displays all the items held and sends no request.
C20_ShowMoreRevealsCachedWithoutRequest ==
    [][(ShowMore /\ HoldsMoreThanDisplayed) =>
          /\ inflight' = inflight
          /\ groupLists'[ActiveGroupId].displayCount =
                Len(groupLists[ActiveGroupId].items)]_vars

\* C20, the case reached: a level at rest, collapsed to its initial limit
\* while it holds more items and a cursor for a further page
C20_CollapsedWithCursor ==
    /\ HoldsMoreThanDisplayed
    /\ ~groupLists[ActiveGroupId].loading
    /\ ~groupLists[ActiveGroupId].error
    /\ groupLists[ActiveGroupId].cursor # NoCursor
    /\ groupLists[ActiveGroupId].displayCount = groupLists[ActiveGroupId].initialLimit
    /\ Outstanding(ActiveGroupId) = 0

----------------------------------------------------------------------------
\* Properties of the sidebar: retry, ancestors, selection, concurrency

\* the level of the active key is in the Errored state
ErroredLevel ==
    /\ ActiveGroupId \in DOMAIN groupLists
    /\ groupLists[ActiveGroupId].error
    /\ ~groupLists[ActiveGroupId].loading

\* the "show more" control is rendered (line 1028) and pressing it sends a
\* request for the active key
RetryOffered ==
    /\ HasMoreGroups
    /\ RequestsOf(groupListsRef,
                  ShowMoreCalls(ActiveGroupId, Prev(groupListsRef, ActiveGroupId)))
         # EmptyBag

\* C21: whenever the displayed level is in the Errored state, a control is
\* offered whose use sends the level's load again, also when the first page
\* of the level failed.
C21_ErroredLevelOffersRetry ==
    ErroredLevel => RetryOffered

\* C21, the case reached: the first page of the displayed level failed and no
\* request for it is outstanding
C21_FirstPageFailed ==
    /\ ErroredLevel
    /\ groupLists[ActiveGroupId].items = <<>>
    /\ groupLists[ActiveGroupId].cursor = NoCursor
    /\ Outstanding(ActiveGroupId) = 0
    /\ CyclesInProgress = {}

\* the level keys of a branch path: the root and every node on the path
AncestorKeys(path) ==
    {RootKey} \cup {path[i] : i \in 1..Len(path)}

\* the step is a path fetch resolving: that of the path effect or that of a
\* revalidation cycle
PathResolves ==
    \/ \E req \in pathReqs : ~req.cancelled /\ PathResponse(req, TRUE)
    \/ \E cid \in 1..MaxCycles : RevalPathResponse(cid, TRUE)

\* a request for the level key is sent in the step
LoadTriggered(k) ==
    \E r \in DOMAIN inflight' : r.key = k /\ SentNow(r)

\* every level key of the branch path holds a Loaded or Errored level
AncestorsSettled ==
    \A k \in AncestorKeys(groupPath) :
        k \in DOMAIN groupLists /\ ~groupLists[k].loading

\* the branch path of a selected node has resolved and the ancestor effect
\* has run: every level key of the path has an entry
PathResolved ==
    /\ groupPath # <<>>
    /\ ~groupPathLoading
    /\ \A k \in AncestorKeys(groupPath) : k \in DOMAIN groupLists

\* C22: when a branch path resolves, a load is triggered for the root and for
\* every node on the path that has no level yet and for no key that has one;
\* and once the path has resolved and the loads were triggered, every one of
\* these keys eventually holds a Loaded or Errored level.
C22_AncestorsLoadedEagerly ==
    /\ [][PathResolves =>
            \A k \in AncestorKeys(groupPath') :
                LoadTriggered(k) <=> k \notin DOMAIN groupLists]_vars
    /\ (PathResolved ~> AncestorsSettled)

\* C22, the case reached: the path is resolved, nothing is outstanding and a
\* node of the path has no level
C22_NodeLevelDiscarded ==
    /\ groupPath # <<>>
    /\ ~groupPathLoading
    /\ Quiet
    /\ \E k \in AncestorKeys(groupPath) : k \notin DOMAIN groupLists

\* the step is a path fetch failing: that of the path effect or that of a
\* revalidation cycle that detected a change
PathFails ==
    \/ \E req \in pathReqs : ~req.cancelled /\ PathResponse(req, FALSE)
    \/ \E cid \in 1..MaxCycles : RevalPathResponse(cid, FALSE)

\* C23: when the path fetch for the selected node fails, at selection time or
\* in a revalidation cycle, the selection and the branch path are cleared and
\* the sidebar is on the unselected root level.
C23_VanishedSelectionCleared ==
    [][PathFails =>
          /\ selectedGroupId' = 0
          /\ groupPath' = <<>>
          /\ ActiveGroupId' = 0]_vars

\* C23, the case reached: the path fetch of the selection failed, and the
\* selected node still is the active one
C23_SelectionKeptAfterPathFailure ==
    /\ groupPathError
    /\ ~groupPathLoading
    /\ selectedGroupId # 0
    /\ ActiveGroupId = selectedGroupId
    /\ pathReqs = {}

----------------------------------------------------------------------------
\* Properties of the project lists: freshness, validity, key consistency

\* the search key the activation effect of the step runs for
ActivatedKey ==
    Trim(projectText')

\* the page-mode request of the activation of the step
ActivationPageRequest ==
    [gid |-> activeGroup', key |-> ActivatedKey, mode |-> "page"]

\* the snapshot the activation finds is of another key, or the TTL has
\* elapsed since it was fetched
StaleForActivation ==
    \/ activeGroup' \notin DOMAIN projectsMap
    \/ projectsMap[activeGroup'].searchKey # ActivatedKey
    \/ Millis(projectClock) - Millis(projectsMap[activeGroup'].fetchedAt)
          >= PROJECT_CACHE_TTL_MS

\* C24: an activation in page mode that finds a snapshot of the same search
\* key, not loading and fetched less than the TTL ago, sends no request and
\* leaves the snapshot as it is; one that finds the TTL elapsed or another
\* search key sends the fetch of page 1.
C24_FreshPageNotFetchedAgain ==
    [][(/\ ActivationStep
        /\ ActivationMode(projectPrefsRef', activeGroup', ActivatedKey) = "page") =>
          /\ Fresh(projectsMap, activeGroup', ActivatedKey) =>
                /\ projectReqs' = projectReqs
                /\ projectsMap' = projectsMap
          /\ StaleForActivation => ProjectSentNow(ActivationPageRequest)]_vars

\* C24, the case reached: the snapshot of the active branch is fresh for the
\* current search key and the only outstanding request is a page fetch for
\* that key
C24_FreshYetFetching ==
    /\ projectsMounted
    /\ Fresh(projectsMap, activeGroup, Trim(projectText))
    /\ projectsMap[activeGroup].firstPageItems # None
    /\ projectReqs =
          SetToBag({[gid |-> activeGroup, key |-> Trim(projectText), mode |-> "page"]})

\* the snapshot of group g holds the complete list of the pair (g, key)
HoldsCompleteList(g, key) ==
    /\ g \in DOMAIN projectsMap
    /\ projectsMap[g].searchKey = key
    /\ projectsMap[g].allItems = Some(ProjectList(g, key))

\* C25: while the complete list of a pair (groupId, searchKey) is stored, no
\* activation, expand or collapse sends another complete-list fetch for that
\* pair.
C25_CompleteListFetchedOnce ==
    [][\A r \in DOMAIN projectReqs' :
          (r.mode = "all" /\ ProjectSentNow(r)) => ~HoldsCompleteList(r.gid, r.key)]_vars

\* C25, the case reached: the complete list of the active pair is stored and
\* a complete-list fetch for that pair is outstanding
C25_CompleteListFetchedAgain ==
    /\ projectsMounted
    /\ HoldsCompleteList(activeGroup, Trim(projectText))
    /\ projectsMap[activeGroup].loading
    /\ projectReqs =
          SetToBag({[gid |-> activeGroup, key |-> Trim(projectText), mode |-> "all"]})

----------------------------------------------------------------------------
\* Properties of the sidebar and the persistent tree cache

\* the step is a successful answer to a request for the root level
RootFetched ==
    \E req \in DOMAIN inflight : req.key = RootKey /\ LevelResponse(req, TRUE)

\* C26: after every successful fetch of the root level the session storage
\* holds a tree cache record, for the next mount to read.
C26_RootFetchWritesTreeCache ==
    [][RootFetched => storage' # <<>>]_vars

\* C26, the case reached: the root level was fetched, the sidebar holds its
\* marker, and the session storage holds no record
C26_RootLoadedNothingStored ==
    /\ RootKey \in DOMAIN groupLists
    /\ ~groupLists[RootKey].loading
    /\ ~groupLists[RootKey].error
    /\ groupLists[RootKey].items # <<>>
    /\ rootMetaRef.hash = serverHash
    /\ storage = <<>>

\* C27: in every reachable state and for every level key, the level's loading
\* flag is set exactly when a request for that key is outstanding.
C27_LoadingIffOutstanding ==
    \A k \in Keys :
        (k \in DOMAIN groupLists /\ groupLists[k].loading) <=> Outstanding(k) > 0

\* C27, the case reached: one of the two root loads of the mount has answered
\* and cleared the flag, the other is outstanding
C27_FlagClearedByFirstOfTwo ==
    /\ RootKey \in DOMAIN groupLists
    /\ ~groupLists[RootKey].loading
    /\ ~groupLists[RootKey].error
    /\ Outstanding(RootKey) = 1
    /\ \A r \in DOMAIN inflight : r.reset /\ r.prev = <<>> /\ r.cid = 0
    /\ CyclesInProgress = {}
    /\ serverHash = 1

\* the step is the response, successful or failed, to a level request that
\* was sent before a revalidation discarded the levels
DiscardedRequestAnswered ==
    \E req \in DOMAIN sentBeforeDiscard, ok \in BOOLEAN : LevelResponse(req, ok)

\* C28: the response to a level request that was sent before a revalidation
\* discarded the cached levels writes nothing into groupLists.
C28_DiscardedRequestWritesNothing ==
    [][DiscardedRequestAnswered => groupLists' = groupLists]_vars

\* C28, the case reached: the levels were discarded while a load-more
\* request holding items and a cursor of a level was outstanding
C28_LoadMoreOutstandingAcrossDiscard ==
    \E req \in DOMAIN sentBeforeDiscard :
        /\ ~req.reset
        /\ req.prev # <<>>
        /\ req.prev[1].items # <<>>
        /\ req.prev[1].cursor # NoCursor

----------------------------------------------------------------------------
\* Properties of the project lists: key consistency

\* the step is the response to a project request whose search key is no
\* longer the one the text stands for
SupersededAnswered ==
    \E req \in DOMAIN projectReqs, ok \in BOOLEAN :
        /\ req.key # Trim(projectText)
        /\ \/ ProjectPageResponse(req, ok)
           \/ AllProjectsResponse(req, ok)

\* the snapshot of the active branch is that of the search key requested
\* last: its key, and unless the fetch failed, items of that key's list
SnapshotOfCurrentKey ==
    /\ ActiveSnapshot.searchKey = Trim(projectText)
    /\ ~ActiveSnapshot.error =>
          IsPrefix(ActiveSnapshot.items,
                   ProjectList(activeGroup, Trim(projectText)))

\* C29: the response to a project request whose search key has been
\* superseded is not applied; and whenever no project request is
\* outstanding, the snapshot of the active branch has the search key
\* requested last and items of that key.
C29_SnapshotFollowsLatestKey ==
    /\ [][SupersededAnswered => projectsMap' = projectsMap]_vars
    /\ [](( /\ projectsMounted
            /\ activeGroup \in DOMAIN projectsMap
            /\ projectReqs = EmptyBag) => SnapshotOfCurrentKey)

\* C29, the case reached: nothing is outstanding and the active branch shows
\* the first page of a search key other than the one in the search box
C29_SnapshotOfSupersededKey ==
    /\ projectsMounted
    /\ activeGroup \in DOMAIN projectsMap
    /\ projectReqs = EmptyBag
    /\ ~ActiveSnapshot.error
    /\ ~ActiveSnapshot.loading
    /\ ActiveSnapshot.searchKey # Trim(projectText)
    /\ ActiveSnapshot.items = ProjectsPage(activeGroup, ActiveSnapshot.searchKey).items

----------------------------------------------------------------------------
\* Properties of the branch path: the path and the selection

\* the step is the response to a path request made for a selection that is
\* no longer the current one: a cancelled request of the path effect, or
\* the path refresh of a revalidation cycle started under another selection
StalePathAnswered ==
    \/ \E req \in pathReqs, ok \in BOOLEAN :
          req.gid # selectedGroupId /\ PathResponse(req, ok)
    \/ \E cid \in 1..MaxCycles, ok \in BOOLEAN :
          cycles[cid].sel # selectedGroupId /\ RevalPathResponse(cid, ok)

====
